---- MODULE Spec2Model ----
(***************************************************************************)
(* A model of the Coastal Alert Tracking System front end: the data source *)
(* stub (CoastalAPI), the Dashboard Shell that owns the reading and alert  *)
(* lists, the Threat Heuristic (MLThreatDetection) and the Auth Stub.      *)
(*                                                                         *)
(* Conventions.  Time is in milliseconds, as Date.now() gives it.  Sensor  *)
(* values are fixed-point numbers in hundredths of their unit (2.5 m is    *)
(* 250, 60 km/h is 6000, 40 ppm is 4000) and a Math.random() draw r is the *)
(* integer 100*r in 0..99, so every comparison of the source is exact on   *)
(* the grid.  Strings the code computes (identifiers, alert types) are     *)
(* sequences of one-character strings so that replace() and toLowerCase()  *)
(* are computed character by character; strings that are only copied or    *)
(* compared stay TLA+ strings.                                             *)
(***************************************************************************)
EXTENDS Integers, Sequences, FiniteSets, TLC

VARIABLES
    now,          \* Date.now(), in ms since the page was loaded
    timers,       \* the setInterval timers connectWebSocket installed
    sensorData,   \* the reading list (Dashboard state, MLThreatDetection prop)
    alerts,       \* the alert list (Dashboard state)
    model,        \* MLThreatDetection: the tf model, "null" until trained
    predictions,  \* MLThreatDetection: the published predictions
    calls,        \* how often each callback has been invoked so far
    lastDraw,     \* the Math.random() draw of the latest alert-timer tick
    op,           \* the latest call of a CoastalAPI function under test
    args,         \* ... its arguments
    result,       \* ... and what it returned
    user,         \* AuthProvider: the current user, <<u>>, or <<>> for null
    localStorage, \* the browser's localStorage: a set of <<key, string>>
    logins,       \* the login calls still awaiting authenticateUser
    mounted,      \* whether the AuthProvider's startup effect has run
    returned,     \* what the login call that completed last returned
    history,      \* the AuthProvider's steps so far, each with its outcome
    filterSeverity, \* AlertPanel: the selected severity filter
    statusUpdates,  \* the calls of onAlertUpdate(alertId, status) so far
    messages,     \* ChatBot: the message log
    inputText,    \* ChatBot: the text in the input field
    replies,      \* ChatBot: the reply timeouts that have not fired yet
    avatar,       \* ChatBot: the 3D avatar, its canvas and its render loop
    selectedAlert,       \* AlertPanel: <<alert>> for the selected alert, <<>> for null
    notificationMessage, \* AlertPanel: the text of the notification being composed
    selectedChannels,    \* AlertPanel: the channels selected for it, in order
    sent          \* the call of onSendNotification the latest step made, if any

vars == <<now, timers, sensorData, alerts, model, predictions, calls,
          lastDraw, op, args, result, user, localStorage, logins, mounted,
          returned, history, filterSeverity, statusUpdates, messages,
          inputText, replies, avatar, selectedAlert, notificationMessage,
          selectedChannels, sent>>

pushVars == <<now, timers, sensorData, alerts, model, predictions, calls, lastDraw>>
apiVars == <<op, args, result>>
authVars == <<user, localStorage, logins, mounted, returned, history>>
composeVars == <<selectedAlert, notificationMessage, selectedChannels, sent>>
viewVars == <<filterSeverity, statusUpdates, messages, inputText, replies, avatar,
              composeVars>>

----------------------------------------------------------------------------
(* Bounds of the model. *)

MaxTicks == 4         \* the clock stops after this many steps of 2500 ms
MaxConnects == 2      \* calls of connectWebSocket
MaxConnectTicks == 1  \* connectWebSocket is called within these first steps
MaxTides == 6         \* equal tide readings MLThreatDetection is mounted with
MaxUpdates == 2       \* reading updates MLThreatDetection receives
MaxWinds == 2         \* wind readings of one location given to detectAnomalies
MaxQualities == 2     \* water-quality readings of one location given to it
MaxThreatReadings == 2 \* readings given to detectThreats
MantissaBits == 10    \* significant bits of a floating-point number (53 in
                      \* the JavaScript Number; the integers of the checker
                      \* leave room for 13)
MaxDays == 3          \* widest date range asked of getHistoricalData
MaxLogins == 2        \* login calls awaiting authenticateUser at one time
MaxAuthSteps == 5     \* steps of the AuthProvider that are followed

(* Program constants. *)

DataInterval == 5000          \* setInterval(..., 5000)
AlertInterval == 10000        \* setInterval(..., 10000)
AlertDrawThreshold == 95      \* Math.random() > 0.95
SurgeImpactDelay == 21600000  \* 6 * 60 * 60 * 1000
ErosionImpactDelay == 86400000 \* 24 * 60 * 60 * 1000
MLImpactDelay == 14400000     \* 4 * 60 * 60 * 1000
MsPerDay == 86400000          \* 1000 * 60 * 60 * 24
AuthDelay == 1000             \* setTimeout(resolve, 1000)
WindThreshold == 6000         \* maxWind > 60
QualityThreshold == 4000      \* minQuality < 40
TideAlertLevel == 250         \* detectThreats: data.value > 2.5
TideCriticalLevel == 300      \* detectThreats: data.value > 3
WindAlertLevel == 6000        \* detectThreats: data.value > 60
WindCriticalLevel == 8000     \* detectThreats: data.value > 80
TideImpactDelay == 7200000    \* 2 * 60 * 60 * 1000
WindImpactDelay == 14400000   \* 4 * 60 * 60 * 1000
DetectDelay == 500            \* setTimeout(resolve, 500)

----------------------------------------------------------------------------
(* Strings as character sequences. *)

UpperCase == <<"A","B","C","D","E","F","G","H","I","J","K","L","M","N","O","P","Q","R","S","T","U","V","W","X","Y","Z">>
LowerCase == <<"a","b","c","d","e","f","g","h","i","j","k","l","m","n","o","p","q","r","s","t","u","v","w","x","y","z">>
DigitChars == <<"0","1","2","3","4","5","6","7","8","9">>
WhiteSpace == {" "}

\* One character of String.prototype.toLowerCase.
LowerChar(c) ==
    IF \E i \in 1..Len(UpperCase) : UpperCase[i] = c
    THEN LowerCase[CHOOSE i \in 1..Len(UpperCase) : UpperCase[i] = c]
    ELSE c

ToLowerCase(s) == [i \in 1..Len(s) |-> LowerChar(s[i])]

\* s.replace(' ', '_'): a string pattern replaces the first occurrence only.
ReplaceFirstSpace(s) ==
    IF \E i \in 1..Len(s) : s[i] = " "
    THEN LET k == CHOOSE i \in 1..Len(s) :
                      s[i] = " " /\ \A j \in 1..(i - 1) : s[j] # " "
         IN  [i \in 1..Len(s) |-> IF i = k THEN "_" ELSE s[i]]
    ELSE s

\* s.replace(/\s+/g, '_'): every maximal run of white space becomes one "_".
RECURSIVE ReplaceSpaceRuns(_)
ReplaceSpaceRuns(s) ==
    IF s = <<>> THEN <<>>
    ELSE IF Head(s) \in WhiteSpace
         THEN LET RECURSIVE Skip(_)
                  Skip(t) == IF t # <<>> /\ Head(t) \in WhiteSpace
                             THEN Skip(Tail(t)) ELSE t
              IN  <<"_">> \o ReplaceSpaceRuns(Skip(Tail(s)))
         ELSE <<Head(s)>> \o ReplaceSpaceRuns(Tail(s))

\* `${i}` for a non-negative integer: its decimal digits.
RECURSIVE NumberToString(_)
NumberToString(i) ==
    IF i < 10 THEN <<DigitChars[i + 1]>>
    ELSE NumberToString(i \div 10) \o <<DigitChars[(i % 10) + 1]>>

----------------------------------------------------------------------------
(* The data model: src/lib/api.ts. *)

SensorTypes == {"tide_gauge", "weather_station", "water_quality", "seismic"}
StatusValues == {"normal", "warning", "critical"}
Severities == {"low", "medium", "high", "critical"}

StormSurge == <<"s","t","o","r","m","_","s","u","r","g","e">>
Erosion == <<"e","r","o","s","i","o","n">>
Pollution == <<"p","o","l","l","u","t","i","o","n">>
Cyclone == <<"c","y","c","l","o","n","e">>
Tsunami == <<"t","s","u","n","a","m","i">>

\* ThreatAlert.type
ThreatTypes == {StormSurge, Erosion, Pollution, Cyclone, Tsunami}

ChennaiCoast == <<"C","h","e","n","n","a","i"," ","C","o","a","s","t">>
MumbaiCoast == <<"M","u","m","b","a","i"," ","C","o","a","s","t">>
GoaCoast == <<"G","o","a"," ","C","o","a","s","t">>
PuducherryCoast == <<"P","u","d","u","c","h","e","r","r","y"," ","C","o","a","s","t">>
KeralaCoast == <<"K","e","r","a","l","a"," ","C","o","a","s","t">>

\* A roster that names Chennai Coast twice.
locationsRepeated ==
    << [lat |-> 130827, lng |-> 802707, name |-> ChennaiCoast],
       [lat |-> 190760, lng |-> 728777, name |-> MumbaiCoast],
       [lat |-> 152993, lng |-> 741240, name |-> GoaCoast],
       [lat |-> 119416, lng |-> 798083, name |-> PuducherryCoast],
       [lat |-> 130827, lng |-> 802707, name |-> ChennaiCoast] >>

\* The roster of generateMockSensorData; lat and lng in 1/10000 degree.
locations ==
    << [lat |-> 130827, lng |-> 802707, name |-> ChennaiCoast],
       [lat |-> 190760, lng |-> 728777, name |-> MumbaiCoast],
       [lat |-> 152993, lng |-> 741240, name |-> GoaCoast],
       [lat |-> 119416, lng |-> 798083, name |-> PuducherryCoast],
       [lat |-> 85241,  lng |-> 769366, name |-> KeralaCoast] >>

\* Readings of one location with wind speeds between 20 and 120 km/h.
LocationReadingsGale(location, d, t) ==
    << [id |-> <<"t","i","d","e","_">> \o location.name,
        type |-> "tide_gauge", location |-> location,
        value |-> d.tide * 3 + 100, unit |-> "meters", timestamp |-> t,
        status |-> "normal"],
       [id |-> <<"w","e","a","t","h","e","r","_">> \o location.name,
        type |-> "weather_station", location |-> location,
        value |-> d.wind * 100 + 2000, unit |-> "km/h", timestamp |-> t,
        status |-> "normal"],
       [id |-> <<"q","u","a","l","i","t","y","_">> \o location.name,
        type |-> "water_quality", location |-> location,
        value |-> d.quality * 100, unit |-> "ppm", timestamp |-> t,
        status |-> "normal"] >>

\* The three readings generateMockSensorData makes for one location. d gives
\* the six Math.random() draws, in hundredths, that the location consumes.
LocationReadings(location, d, t) ==
    << [id |-> <<"t","i","d","e","_">> \o ReplaceFirstSpace(location.name),
        type |-> "tide_gauge",
        location |-> location,
        value |-> d.tide * 3 + 100,
        unit |-> "meters",
        timestamp |-> t,
        status |-> IF d.tideStatus > 80 THEN "warning" ELSE "normal"],
       [id |-> <<"w","e","a","t","h","e","r","_">> \o ReplaceFirstSpace(location.name),
        type |-> "weather_station",
        location |-> location,
        value |-> d.wind * 50 + 2000,
        unit |-> "km/h",
        timestamp |-> t,
        status |-> IF d.windStatus > 90 THEN "critical" ELSE "normal"],
       [id |-> <<"q","u","a","l","i","t","y","_">> \o ReplaceFirstSpace(location.name),
        type |-> "water_quality",
        location |-> location,
        value |-> d.quality * 100,
        unit |-> "ppm",
        timestamp |-> t,
        status |-> IF d.qualityStatus > 85 THEN "warning" ELSE "normal"] >>

\* A generator that lists the locations from the last to the first.
generateMockSensorDataReversed(draws, t) ==
    LET RECURSIVE Go(_)
        Go(i) == IF i < 1 THEN <<>>
                 ELSE LocationReadings(locations[i], draws[i], t) \o Go(i - 1)
    IN  Go(Len(locations))

\* generateMockSensorData(): draws[i] are the draws for locations[i].
generateMockSensorData(draws, t) ==
    LET RECURSIVE Go(_)
        Go(i) == IF i > Len(locations) THEN <<>>
                 ELSE LocationReadings(locations[i], draws[i], t) \o Go(i + 1)
    IN  Go(1)

\* generateMockAlerts()
generateMockAlerts(t) ==
    << [id |-> "alert_001",
        type |-> StormSurge,
        severity |-> "high",
        location |-> [lat |-> 130827, lng |-> 802707, name |-> ChennaiCoast],
        description |-> "Severe storm surge expected due to cyclonic activity",
        timestamp |-> t,
        estimatedImpact |-> t + SurgeImpactDelay,
        affectedAreas |-> <<"Chennai Port", "Marina Beach", "Ennore Creek">>],
       [id |-> "alert_002",
        type |-> Erosion,
        severity |-> "medium",
        location |-> [lat |-> 152993, lng |-> 741240, name |-> GoaCoast],
        description |-> "Accelerated coastal erosion detected",
        timestamp |-> t,
        estimatedImpact |-> t + ErosionImpactDelay,
        affectedAreas |-> <<"Calangute Beach", "Baga Beach">>] >>

----------------------------------------------------------------------------
(* Real numbers the heuristic computes.  A non-negative real x is kept as  *)
(* the reduced fraction n/d of its square, so that a z-score, which is a   *)
(* square root of a rational, and everything linear in it stay exact.      *)

RECURSIVE GCD(_, _)
GCD(a, b) == IF b = 0 THEN a ELSE GCD(b, a % b)

\* sqrt(n / d), for n >= 0 and d > 0
Root(n, d) == LET g == GCD(n, d) IN [n |-> n \div g, d |-> d \div g]

\* a / b, for a >= 0 and b > 0
Ratio(a, b) == LET g == GCD(a, b)
               IN  Root((a \div g) * (a \div g), (b \div g) * (b \div g))

\* (a / b) * x
Times(a, b, x) == LET r == Ratio(a, b) IN Root(r.n * x.n, r.d * x.d)

\* x > a / b, that is x.n * b^2 > a^2 * x.d, with the common factors of the
\* two sides taken out first
GreaterThan(x, a, b) ==
    LET g == GCD(x.n, a * a)
        h == GCD(x.d, b * b)
    IN  IF a = 0 THEN x.n > 0
        ELSE (x.n \div g) * ((b * b) \div h) > ((a * a) \div g) * (x.d \div h)

\* Math.min(x, a / b)
MathMin(x, a, b) == IF GreaterThan(x, a, b) THEN Ratio(a, b) ELSE x

----------------------------------------------------------------------------
(* The Threat Heuristic: src/components/MLThreatDetection.tsx. *)

StormSurgeRisk == <<"S","t","o","r","m"," ","S","u","r","g","e"," ","R","i","s","k">>
UnusualLowTide == <<"U","n","u","s","u","a","l"," ","L","o","w"," ","T","i","d","e">>
CyclonicActivity == <<"C","y","c","l","o","n","i","c"," ","A","c","t","i","v","i","t","y">>
WaterPollution == <<"W","a","t","e","r"," ","P","o","l","l","u","t","i","o","n">>

OfType(sensors, type) == SelectSeq(sensors, LAMBDA s : s.type = type)

RECURSIVE SumValues(_)
SumValues(sensors) ==
    IF sensors = <<>> THEN 0 ELSE Head(sensors).value + SumValues(Tail(sensors))

MaxValue(sensors) ==
    CHOOSE v \in {sensors[i].value : i \in 1..Len(sensors)} :
        \A i \in 1..Len(sensors) : sensors[i].value <= v

MinValue(sensors) ==
    CHOOSE v \in {sensors[i].value : i \in 1..Len(sensors)} :
        \A i \in 1..Len(sensors) : sensors[i].value >= v

\* The keys of locationGroups in insertion order: each location name at its
\* first occurrence in data.
LocationKeys(data) ==
    LET RECURSIVE Go(_)
        Go(i) == IF i > Len(data) THEN <<>>
                 ELSE IF \E j \in 1..(i - 1) :
                             data[j].location.name = data[i].location.name
                      THEN Go(i + 1)
                      ELSE <<data[i].location.name>> \o Go(i + 1)
    IN  Go(1)

\* n * (value - avgTide) for a reading of tideData: the deviation from the
\* mean, scaled by the number of tide readings to stay an integer.
Deviation(sensor, tideData) == Len(tideData) * sensor.value - SumValues(tideData)

RECURSIVE SumSquares(_, _)
SumSquares(rest, tideData) ==
    IF rest = <<>> THEN 0
    ELSE Deviation(Head(rest), tideData) * Deviation(Head(rest), tideData)
         + SumSquares(Tail(rest), tideData)

\* tideStdDev = 0 makes (value - avgTide) / tideStdDev the NaN 0 / 0, which
\* compares false with everything.
ZScoreIsNaN(tideData) == SumSquares(tideData, tideData) = 0

\* zScore = |value - avgTide| / tideStdDev; its square is
\* n * dev^2 / sum(dev^2) with dev the scaled deviations.
ZScore(sensor, tideData) ==
    LET dev == Deviation(sensor, tideData)
    IN  Root(Len(tideData) * dev * dev, SumSquares(tideData, tideData))

\* if (zScore > 2)
IsTideAnomaly(sensor, tideData) ==
    /\ ~ZScoreIsNaN(tideData)
    /\ GreaterThan(ZScore(sensor, tideData), 2, 1)

\* TidePrediction without the caps of Math.min.
TidePredictionUncapped(sensor, tideData, location) ==
    LET zScore == ZScore(sensor, tideData)
    IN  [threatType |-> IF Deviation(sensor, tideData) > 0
                        THEN StormSurgeRisk ELSE UnusualLowTide,
         probability |-> Times(3, 10, zScore),
         confidence |-> Times(25, 100, zScore),
         location |-> location,
         features |-> << <<"Tide level", sensor.value>>, <<"Z-score", zScore>> >>]

TidePrediction(sensor, tideData, location) ==
    LET zScore == ZScore(sensor, tideData)
    IN  [threatType |-> IF Deviation(sensor, tideData) > 0
                        THEN StormSurgeRisk ELSE UnusualLowTide,
         probability |-> MathMin(Times(3, 10, zScore), 95, 100),
         confidence |-> MathMin(Times(25, 100, zScore), 9, 10),
         location |-> location,
         features |-> << <<"Tide level", sensor.value>>, <<"Z-score", zScore>> >>]

RECURSIVE TideAnomalies(_, _, _)
TideAnomalies(rest, tideData, location) ==
    IF rest = <<>> THEN <<>>
    ELSE (IF IsTideAnomaly(Head(rest), tideData)
          THEN <<TidePrediction(Head(rest), tideData, location)>> ELSE <<>>)
         \o TideAnomalies(Tail(rest), tideData, location)

\* The wind test with >= for >.
IsWindAnomalyOrEqual(maxWind) == maxWind >= WindThreshold

\* if (maxWind > 60)
IsWindAnomaly(maxWind) == maxWind > WindThreshold

WindAnomalies(windData, location) ==
    IF windData = <<>> THEN <<>>
    ELSE LET maxWind == MaxValue(windData)
         IN  IF IsWindAnomaly(maxWind)
             THEN << [threatType |-> CyclonicActivity,
                      probability |-> MathMin(Ratio(maxWind - 6000, 4000), 95, 100),
                      confidence |-> MathMin(Ratio(maxWind - 5000, 5000), 9, 10),
                      location |-> location,
                      features |-> << <<"Wind speed", maxWind>>,
                                      "Sustained high winds detected" >>] >>
             ELSE <<>>

\* The quality test with <= for <.
IsQualityAnomalyOrEqual(minQuality) == minQuality <= QualityThreshold

\* if (minQuality < 40)
IsQualityAnomaly(minQuality) == minQuality < QualityThreshold

QualityAnomalies(qualityData, location) ==
    IF qualityData = <<>> THEN <<>>
    ELSE LET minQuality == MinValue(qualityData)
         IN  IF IsQualityAnomaly(minQuality)
             THEN << [threatType |-> WaterPollution,
                      probability |-> MathMin(Ratio(4000 - minQuality, 4000), 95, 100),
                      confidence |-> MathMin(Ratio(5000 - minQuality, 5000), 85, 100),
                      location |-> location,
                      features |-> << <<"Water quality", minQuality>>,
                                      "Below safety threshold" >>] >>
             ELSE <<>>

\* The body of the forEach over Object.entries(locationGroups).
LocationAnomalies(data, location) ==
    LET sensors == SelectSeq(data, LAMBDA s : s.location.name = location)
        tideData == OfType(sensors, "tide_gauge")
        windData == OfType(sensors, "weather_station")
        qualityData == OfType(sensors, "water_quality")
    IN  TideAnomalies(tideData, tideData, location)
        \o WindAnomalies(windData, location)
        \o QualityAnomalies(qualityData, location)

detectAnomalies(data) ==
    LET RECURSIVE Go(_)
        Go(keys) == IF keys = <<>> THEN <<>>
                    ELSE LocationAnomalies(data, Head(keys)) \o Go(Tail(keys))
    IN  Go(LocationKeys(data))

\* The threshold test with >= for >.
IsHighProbabilityOrEqual(prediction) ==
    GreaterThan(prediction.probability, 7, 10)
    \/ prediction.probability = Ratio(7, 10)

\* if (prediction.probability > 0.7)
IsHighProbability(prediction) == GreaterThan(prediction.probability, 7, 10)

\* prediction.threatType.toLowerCase().replace(/\s+/g, '_')
ThreatTypeOf(prediction) == ReplaceSpaceRuns(ToLowerCase(prediction.threatType))

\* sensorData.find(s => s.location.name === prediction.location) finds one
HasLocation(data, name) == \E i \in 1..Len(data) : data[i].location.name = name

\* ... and its ?.location
FindLocation(data, name) ==
    data[CHOOSE i \in 1..Len(data) :
             /\ data[i].location.name = name
             /\ \A j \in 1..(i - 1) : data[j].location.name # name].location

\* The ThreatAlert runPredictions builds from a prediction; rnd stands for
\* Math.random().toString(36).substr(2, 9).
ThreatOf(prediction, location, t, rnd) ==
    [id |-> <<"ml", t, rnd>>,
     type |-> ThreatTypeOf(prediction),
     severity |-> IF GreaterThan(prediction.probability, 9, 10) THEN "critical"
                  ELSE IF GreaterThan(prediction.probability, 8, 10) THEN "high"
                  ELSE "medium",
     location |-> location,
     description |-> <<"ML detected", prediction.threatType, prediction.probability>>,
     timestamp |-> t,
     estimatedImpact |-> t + MLImpactDelay,
     affectedAreas |-> <<location.name>>]

\* The threats one run of runPredictions hands to onThreatDetected, in call
\* order. rnds[i] is the random suffix drawn for anomalies[i].
RECURSIVE ThreatsFrom(_, _, _, _, _)
ThreatsFrom(anomalies, i, data, t, rnds) ==
    IF i > Len(anomalies) THEN <<>>
    ELSE LET prediction == anomalies[i]
             location == FindLocation(data, prediction.location)
         IN  (IF IsHighProbability(prediction)
                 /\ HasLocation(data, prediction.location)
              THEN <<ThreatOf(prediction, location, t, rnds[i])>>
              ELSE <<>>)
             \o ThreatsFrom(anomalies, i + 1, data, t, rnds)

\* A prediction effect without its early return.
EffectRunsUngated(m, data) == TRUE

\* if (!model || sensorData.length === 0) return;
EffectRuns(m, data) == m # "null" /\ data # <<>>

\* Math.random().toString(36).substr(2, 9): an opaque token; nothing reads it.
RandomSuffixes == {"k3x9"}

----------------------------------------------------------------------------
(* The Dashboard Shell (src/pages/Dashboard.tsx): the handlers it gives to  *)
(* connectWebSocket and to MLThreatDetection.                               *)

\* onDataUpdate that replaces an earlier reading with the same identifier.
OnDataUpdateDedupe(list, data) ==
    Append(SelectSeq(list, LAMBDA s : s.id # data.id), data)

\* onDataUpdate: the pushed reading is appended to the reading list.
OnDataUpdate(list, data) == Append(list, data)

\* onAlertUpdate: the pushed alert is appended to the alert list.
OnAlertUpdate(list, alert) == Append(list, alert)

\* onThreatDetected: the synthesized alert is fed back into the alert list.
RECURSIVE OnThreatsDetected(_, _)
OnThreatsDetected(list, threats) ==
    IF threats = <<>> THEN list
    ELSE OnThreatsDetected(Append(list, Head(threats)), Tail(threats))

\* The prediction effect of MLThreatDetection for the reading list data and
\* model m, run after a render that changed either: it publishes the
\* predictions and calls onThreatDetected. al and c are the alert list and
\* the call counts as the rest of the step leaves them.
PredictionEffect(m, data, al, c) ==
    IF EffectRuns(m, data)
    THEN \E anomalies \in {detectAnomalies(data)} :
             \E rnds \in [1..Len(anomalies) -> RandomSuffixes] :
                 \E threats \in {ThreatsFrom(anomalies, 1, data, now, rnds)} :
                     /\ predictions' = anomalies
                     /\ alerts' = OnThreatsDetected(al, threats)
                     /\ calls' = [c EXCEPT !.runs = @ + 1,
                                           !.threat = @ + Len(threats)]
    ELSE /\ predictions' = predictions
         /\ alerts' = al
         /\ calls' = c

----------------------------------------------------------------------------
(* The push channel and the dashboard it feeds. *)

\* Draws that leave a location without any anomaly.
CalmDraws ==
    [tide |-> 50, tideStatus |-> 0, wind |-> 50, windStatus |-> 0,
     quality |-> 50, qualityStatus |-> 0]

\* The draws for Chennai Coast in the reading list the dashboard starts with.
InitialChennaiDraws ==
    { [CalmDraws EXCEPT !.quality = q, !.wind = 87 + q, !.qualityStatus = 80 + q] :
          q \in {2, 10, 12} }

\* The draws of one pushed reading: generateMockSensorData()[0] reads only
\* the two draws of the first location's tide reading.
PushDraws ==
    { [CalmDraws EXCEPT !.tide = v, !.tideStatus = v] : v \in {0, 99} }

AlertDraws == {0, 95, 96}

DrawsFor(chennai) == [i \in 1..Len(locations) |-> IF i = 1 THEN chennai ELSE CalmDraws]

NoCalls == [connects |-> 0, data |-> 0, alert |-> 0, threat |-> 0, runs |-> 0]

ApiIdle == op = "none" /\ args = <<>> /\ result = <<>>

AuthIdle ==
    /\ user = <<>> /\ localStorage = {} /\ logins = <<>>
    /\ mounted = FALSE /\ returned = "none" /\ history = <<>>

\* No view component is mounted.
ViewIdle ==
    /\ filterSeverity = "all" /\ statusUpdates = <<>>
    /\ selectedAlert = <<>> /\ notificationMessage = "" /\ selectedChannels = <<>>
    /\ sent = <<>>
    /\ messages = <<>> /\ inputText = <<>> /\ replies = <<>>
    /\ avatar = [mounted |-> FALSE, canvas |-> FALSE, disposed |-> FALSE,
                 frame |-> FALSE, renders |-> 0]

PushIdle ==
    /\ now = 0 /\ timers = <<>> /\ sensorData = <<>> /\ alerts = <<>>
    /\ model = "null" /\ predictions = <<>> /\ calls = NoCalls /\ lastDraw = 0

Init ==
    /\ now = 0
    /\ timers = <<>>
    /\ \/ sensorData = <<>> /\ alerts = <<>>
       \/ /\ sensorData \in { generateMockSensorData(DrawsFor(d), 0) :
                                  d \in InitialChennaiDraws }
          /\ alerts = generateMockAlerts(0)
    /\ model = "null"
    /\ predictions = <<>>
    /\ calls = NoCalls
    /\ lastDraw = 0
    /\ ApiIdle
    /\ AuthIdle
    /\ ViewIdle

\* connectWebSocket(onDataUpdate, onAlertUpdate): two setInterval timers.
ConnectWebSocket ==
    /\ calls.connects < MaxConnects
    /\ now <= MaxConnectTicks * 2500
    /\ timers' = timers \o
           << [kind |-> "data", due |-> now + DataInterval, installed |-> now, fires |-> 0],
              [kind |-> "alert", due |-> now + AlertInterval, installed |-> now, fires |-> 0] >>
    /\ calls' = [calls EXCEPT !.connects = @ + 1]
    /\ UNCHANGED <<now, sensorData, alerts, model, predictions, lastDraw>>
    /\ UNCHANGED <<apiVars, authVars, viewVars>>

\* Time passes, in steps of 2500 ms (half the shorter interval, so that two
\* subscriptions can be in or out of phase); a timer that is due runs before
\* the clock moves on.
Tick ==
    /\ now < MaxTicks * 2500
    /\ \A i \in 1..Len(timers) : timers[i].due > now
    /\ now' = now + 2500
    /\ UNCHANGED <<timers, sensorData, alerts, model, predictions, calls, lastDraw>>
    /\ UNCHANGED <<apiVars, authVars, viewVars>>

\* DataTick with the reading timer rescheduled at the alert timer's interval.
DataTickSlow(i) ==
    /\ timers[i].kind = "data"
    /\ timers[i].due <= now
    /\ \E d \in PushDraws :
           LET mockData == generateMockSensorData(DrawsFor(d), now)[1]
               list == OnDataUpdate(sensorData, mockData)
           IN  /\ sensorData' = list
               /\ PredictionEffect(model, list, alerts,
                                   [calls EXCEPT !.data = @ + 1])
    /\ timers' = [timers EXCEPT ![i].due = @ + AlertInterval, ![i].fires = @ + 1]
    /\ UNCHANGED <<now, model, lastDraw>>
    /\ UNCHANGED <<apiVars, authVars, viewVars>>

\* The callback of the 5000 ms timer, and the render it causes.
DataTick(i) ==
    /\ timers[i].kind = "data"
    /\ timers[i].due <= now
    /\ \E d \in PushDraws :
           LET mockData == generateMockSensorData(DrawsFor(d), now)[1]
               list == OnDataUpdate(sensorData, mockData)
           IN  /\ sensorData' = list
               /\ PredictionEffect(model, list, alerts,
                                   [calls EXCEPT !.data = @ + 1])
    /\ timers' = [timers EXCEPT ![i].due = @ + DataInterval, ![i].fires = @ + 1]
    /\ UNCHANGED <<now, model, lastDraw>>
    /\ UNCHANGED <<apiVars, authVars, viewVars>>

\* The callback of the 10000 ms timer.
AlertTick(i) ==
    /\ timers[i].kind = "alert"
    /\ timers[i].due <= now
    /\ \E r \in AlertDraws :
           /\ lastDraw' = r
           /\ IF r > AlertDrawThreshold
              THEN LET mockAlert == generateMockAlerts(now)[1]
                   IN  /\ alerts' = OnAlertUpdate(alerts, mockAlert)
                       /\ calls' = [calls EXCEPT !.alert = @ + 1]
              ELSE UNCHANGED <<alerts, calls>>
    /\ timers' = [timers EXCEPT ![i].due = @ + AlertInterval, ![i].fires = @ + 1]
    /\ UNCHANGED <<now, sensorData, model, predictions>>
    /\ UNCHANGED <<apiVars, authVars, viewVars>>

\* initializeModel: mlModel.fit resolves and setModel(mlModel) re-renders.
TrainingComplete ==
    /\ model = "null"
    /\ model' = "trained"
    /\ PredictionEffect("trained", sensorData, alerts, calls)
    /\ UNCHANGED <<now, timers, sensorData, lastDraw>>
    /\ UNCHANGED <<apiVars, authVars, viewVars>>

Next ==
    \/ ConnectWebSocket
    \/ Tick
    \/ \E i \in 1..Len(timers) : DataTick(i)
    \/ \E i \in 1..Len(timers) : AlertTick(i)
    \/ TrainingComplete

Spec == Init /\ [][Next]_vars

\* The Dashboard Shell subscribes once.
ConnectOnce == calls.connects = 0 /\ ConnectWebSocket

NextDashboard ==
    \/ ConnectOnce
    \/ Tick
    \/ \E i \in 1..Len(timers) : DataTick(i)
    \/ \E i \in 1..Len(timers) : AlertTick(i)
    \/ TrainingComplete

\* The page as the Dashboard Shell runs it: one subscription.
SpecDashboard == Init /\ [][NextDashboard]_vars

----------------------------------------------------------------------------
(* Properties of the push channel and the dashboard: C1 and C5 under Spec, *)
(* C2 and C3 under SpecDashboard.                                         *)

\* C1: after connectWebSocket has been called twice with the same callbacks
\* the reading callback is still invoked once per 5000 ms and the alert
\* callback at most once per 10000 ms, counted from the first subscription.
C1_NoDoubleDelivery ==
    calls.connects = 2 =>
        /\ calls.data * DataInterval <= now - timers[1].installed
        /\ calls.alert * AlertInterval <= now - timers[2].installed

\* The number of whole periods of a timer that have passed, less the firing
\* that is due at this instant and has not run yet.
FiringsDue(timer, interval) ==
    ((now - timer.installed) \div interval) - (IF timer.due <= now THEN 1 ELSE 0)

\* C2, the state part: with one subscription the reading callback has been
\* invoked exactly once per elapsed 5000 ms and the alert callback at most
\* once per elapsed 10000 ms.
C2_OnePerPeriod ==
    calls.connects = 1 =>
        /\ Len(timers) = 2
        /\ timers[1].kind = "data" /\ timers[2].kind = "alert"
        /\ calls.data = FiringsDue(timers[1], DataInterval)
        /\ timers[1].fires = calls.data
        /\ timers[2].fires = FiringsDue(timers[2], AlertInterval)
        /\ calls.alert <= timers[2].fires

\* C2, the step part: the alert callback is invoked on exactly the alert
\* ticks whose draw exceeds 0.95, a firing of one timer leaves the other
\* timer alone, and no step removes or postpones a timer.
C2_TimerStep ==
    /\ Len(timers') >= Len(timers)
    /\ \A i \in 1..Len(timers) :
           /\ timers'[i].kind = timers[i].kind
           /\ timers'[i].installed = timers[i].installed
           /\ timers'[i].fires = timers[i].fires => timers'[i] = timers[i]
           /\ timers'[i].fires # timers[i].fires =>
                  /\ timers'[i].fires = timers[i].fires + 1
                  /\ timers'[i].due = timers[i].due +
                         (IF timers[i].kind = "data" THEN DataInterval ELSE AlertInterval)
                  /\ \A j \in 1..Len(timers) : j # i => timers'[j] = timers[j]
                  /\ timers[i].kind = "data" => calls'.data = calls.data + 1
                  /\ timers[i].kind = "alert" =>
                         /\ calls'.data = calls.data
                         /\ calls'.alert = calls.alert +
                                (IF lastDraw' > AlertDrawThreshold THEN 1 ELSE 0)
    /\ (\A i \in 1..Len(timers) : timers'[i].fires = timers[i].fires) =>
           calls'.data = calls.data /\ calls'.alert = calls.alert

\* C2: after one call of connectWebSocket the reading timer delivers once
\* every 5000 ms and the alert timer at most once every 10000 ms, only on
\* draws above 0.95; the timers are independent and nothing stops them.
C2_TwoIndependentTimers == [][C2_OnePerPeriod' /\ C2_TimerStep]_vars

C2_Witness ==
    /\ calls.connects = 1
    /\ now = 2 * DataInterval
    /\ calls.data = 2
    /\ timers[2].fires = 1
    /\ calls.alert = 1

\* C3 as stated: the reading list grows by one per reading push and the
\* alert list by one per alert push and by nothing else.
C3_ListsGrowByPushesOnly ==
    [][ /\ Len(sensorData') = Len(sensorData) + (calls'.data - calls.data)
        /\ Len(alerts') = Len(alerts) + (calls'.alert - calls.alert) ]_vars

\* C3, amended: every pushed reading is appended to the reading list and
\* every pushed alert to the alert list, which also receives the alerts the
\* Threat Heuristic feeds back; earlier entries keep their place and value,
\* so nothing is deduplicated or evicted.
C3_PushesAppend ==
    [][ /\ Len(sensorData') = Len(sensorData) + (calls'.data - calls.data)
        /\ Len(alerts') = Len(alerts) + (calls'.alert - calls.alert)
                                      + (calls'.threat - calls.threat)
        /\ SubSeq(sensorData', 1, Len(sensorData)) = sensorData
        /\ SubSeq(alerts', 1, Len(alerts)) = alerts
        /\ calls'.data > calls.data =>
               sensorData'[Len(sensorData')] =
                   [generateMockSensorData(DrawsFor(CalmDraws), now)[1] EXCEPT
                        !.value = sensorData'[Len(sensorData')].value,
                        !.status = sensorData'[Len(sensorData')].status]
        /\ calls'.alert > calls.alert =>
               alerts'[Len(alerts) + 1] = generateMockAlerts(now)[1] ]_vars

\* Two pushed readings with the same identifier and a pushed alert with the
\* identifier of an initial one are all in their lists, after the heuristic
\* has fed an alert back.
C3_Witness ==
    /\ calls.data >= 2
    /\ calls.alert >= 1
    /\ calls.threat >= 1
    /\ \E i, j \in 1..Len(sensorData) :
           i < j /\ sensorData[i].id = sensorData[j].id
                 /\ sensorData[i].timestamp # sensorData[j].timestamp
    /\ \E i, j \in 1..Len(alerts) :
           i < j /\ alerts[i].id = "alert_001" /\ alerts[j].id = "alert_001"

\* C5: every alert in the shared alert list has a threat kind of the
\* five-member enumeration.
C5_AlertTypesInEnumeration ==
    \A i \in 1..Len(alerts) : alerts[i].type \in ThreatTypes

----------------------------------------------------------------------------
(* MLThreatDetection on its own: mounted with some reading list, it is     *)
(* re-rendered with a longer list whenever its parent receives a reading.  *)

\* The three readings of Chennai Coast and of Mumbai Coast, to take sample
\* readings from.
ChennaiReadings == LocationReadings(locations[1], CalmDraws, 0)
MumbaiReadings == LocationReadings(locations[2], CalmDraws, 0)

\* k tide readings of 2.00 m at Chennai Coast.
EqualTides(k) == [i \in 1..k |-> [ChennaiReadings[1] EXCEPT !.value = 200]]

\* The readings an update may add.
UpdatePool ==
    { [ChennaiReadings[1] EXCEPT !.value = 390],
      [ChennaiReadings[2] EXCEPT !.value = 6000],
      [ChennaiReadings[2] EXCEPT !.value = 9000],
      [ChennaiReadings[3] EXCEPT !.value = 1200],
      [ChennaiReadings[3] EXCEPT !.value = 1000],
      [MumbaiReadings[3] EXCEPT !.value = 200],
      [MumbaiReadings[1] EXCEPT !.type = "seismic", !.value = 390] }

InitML ==
    /\ now = 0
    /\ timers = <<>>
    /\ sensorData \in { EqualTides(k) : k \in 0..MaxTides }
    /\ alerts = <<>>
    /\ model = "null"
    /\ predictions = <<>>
    /\ calls = NoCalls
    /\ lastDraw = 0
    /\ ApiIdle
    /\ AuthIdle
    /\ ViewIdle

\* The parent re-renders MLThreatDetection with one more reading.
SensorDataUpdate ==
    /\ calls.data < MaxUpdates
    /\ \E reading \in UpdatePool :
           LET list == Append(sensorData, reading)
           IN  /\ sensorData' = list
               /\ PredictionEffect(model, list, alerts,
                                   [calls EXCEPT !.data = @ + 1])
    /\ UNCHANGED <<now, timers, model, lastDraw>>
    /\ UNCHANGED <<apiVars, authVars, viewVars>>

NextML ==
    \/ TrainingComplete
    \/ SensorDataUpdate

SpecML == InitML /\ [][NextML]_vars

\* The positions of the predictions with probability above 0.7, that is with
\* the square of the probability above 0.49.
AboveSeventyPercent(preds) ==
    { i \in 1..Len(preds) :
          preds[i].probability.n * 100 > 49 * preds[i].probability.d }

\* C4: a run of the heuristic calls onThreatDetected once for every
\* prediction with probability above 0.7, in order, and for no other; the
\* alerts already fed back have no influence, so a prediction that is still
\* there on the next run is fed back again.  Without a run nothing is fed.
C4_OneThreatPerHighPrediction ==
    [][ IF calls'.runs = calls.runs + 1
        THEN LET high == AboveSeventyPercent(predictions')
                 fed == SubSeq(alerts', Len(alerts) + 1, Len(alerts'))
             IN  /\ EffectRuns(model', sensorData')
                 /\ calls'.threat - calls.threat = Cardinality(high)
                 /\ Len(fed) = Cardinality(high)
                 /\ SubSeq(alerts', 1, Len(alerts)) = alerts
                 /\ \A j \in 1..Len(fed) :
                        \E i \in high :
                            /\ Cardinality({h \in high : h <= i}) = j
                            /\ fed[j].description[2] = predictions'[i].threatType
                            /\ fed[j].description[3] = predictions'[i].probability
                            /\ fed[j].location.name = predictions'[i].location
        ELSE calls'.runs = calls.runs /\ calls'.threat = calls.threat
                 /\ alerts' = alerts ]_vars

\* Two successive runs have fed back the same prediction twice, while a
\* prediction of exactly 0.7 has been published and not fed back.
C4_Witness ==
    /\ calls.runs >= 2
    /\ \E i, j \in 1..Len(alerts) :
           /\ i < j
           /\ alerts[i].type = alerts[j].type
           /\ alerts[i].location = alerts[j].location
    /\ \E i \in 1..Len(predictions) : predictions[i].probability = Ratio(7, 10)
    /\ \A i \in 1..Len(alerts) : alerts[i].description[3] # Ratio(7, 10)

----------------------------------------------------------------------------
(* The functions a caller sees only through their results, called one at   *)
(* a time.                                                                 *)

mockUsers ==
    << [id |-> "user_001",
        name |-> "Dr. Rajesh Kumar",
        email |-> "rajesh@emergency.gov.in",
        role |-> "emergency_manager",
        organization |-> "National Disaster Management Authority",
        permissions |-> <<"view_all", "create_alerts", "manage_users">>],
       [id |-> "user_002",
        name |-> "Priya Sharma",
        email |-> "priya@coastal.ngo",
        role |-> "ngo",
        organization |-> "Coastal Conservation Society",
        permissions |-> <<"view_data", "create_reports">>] >>

\* authenticateUser that turns an empty password down.
authenticateUserChecked(email, password) ==
    IF password # "" /\ \E i \in 1..Len(mockUsers) : mockUsers[i].email = email
    THEN <<mockUsers[CHOOSE i \in 1..Len(mockUsers) : mockUsers[i].email = email]>>
    ELSE <<>>

\* authenticateUser(email, password), after its delay:
\* mockUsers.find(user => user.email === email) || null, with <<u>> for a
\* user u and <<>> for null.
authenticateUser(email, password) ==
    IF \E i \in 1..Len(mockUsers) : mockUsers[i].email = email
    THEN <<mockUsers[CHOOSE i \in 1..Len(mockUsers) :
                         /\ mockUsers[i].email = email
                         /\ \A j \in 1..(i - 1) : mockUsers[j].email # email]>>
    ELSE <<>>

\* Math.ceil(a / b) for an integer a and b > 0
Ceil(a, b) == -((-a) \div b)

\* Math.sin(i * 0.1) * 0.5 in hundredths, rounded, for the first days.
HalfSine == <<0, 5, 10, 15, 19, 24, 28, 32, 36, 39>>

\* value: Math.sin(i * 0.1) * 0.5 + 2 + Math.random() * 0.2, with draw r
HistoricalValue(i, r) == HalfSine[i + 1] + 200 + (r * 20) \div 100

\* getHistoricalData with the loop bound taken one too far.
getHistoricalDataInclusive(startDate, endDate, r) ==
    LET daysDiff == Ceil(endDate - startDate, MsPerDay)
    IN  IF daysDiff < 0 THEN <<>>
        ELSE [k \in 1..(daysDiff + 1) |->
                 [id |-> <<"h","i","s","t","o","r","i","c","a","l","_">>
                             \o NumberToString(k - 1),
                  type |-> "tide_gauge",
                  location |-> [lat |-> 130827, lng |-> 802707, name |-> ChennaiCoast],
                  value |-> HistoricalValue(k - 1, r),
                  unit |-> "meters",
                  timestamp |-> startDate + (k - 1) * 24 * 60 * 60 * 1000,
                  status |-> "normal"]]

\* getHistoricalData(startDate, endDate), after its delay; the dates are
\* their getTime() and r is the draw of every record.
getHistoricalData(startDate, endDate, r) ==
    LET daysDiff == Ceil(endDate - startDate, MsPerDay)
        RECURSIVE Loop(_, _)
        Loop(i, data) ==
            IF i < daysDiff
            THEN Loop(i + 1, Append(data,
                     [id |-> <<"h","i","s","t","o","r","i","c","a","l","_">>
                                 \o NumberToString(i),
                      type |-> "tide_gauge",
                      location |-> [lat |-> 130827, lng |-> 802707, name |-> ChennaiCoast],
                      value |-> HistoricalValue(i, r),
                      unit |-> "meters",
                      timestamp |-> startDate + i * 24 * 60 * 60 * 1000,
                      status |-> "normal"]))
            ELSE data
    IN  Loop(0, <<>>)

Emails ==
    {"rajesh@emergency.gov.in", "priya@coastal.ngo", "unknown@x.com",
     "Rajesh@emergency.gov.in", "rajesh@emergency.gov.in ", ""}

Passwords == {"", "secret"}

StartDates == {0, 3600000}

\* endDate - startDate: around every whole number of days up to MaxDays,
\* and one range that ends before it starts.
RangeLengths ==
    {0 - MsPerDay} \cup
    { k * MsPerDay + e : k \in 0..(MaxDays - 1), e \in {0, 1, MsPerDay - 1} } \cup
    {MaxDays * MsPerDay}

\* The draws of one call of generateMockSensorData, the same for every
\* location.
GeneratorDraws ==
    { [tide |-> a, tideStatus |-> b, wind |-> a, windStatus |-> 99 - b,
       quality |-> 99 - a, qualityStatus |-> b] :
          a \in {0, 50, 99}, b \in {0, 80, 81, 99} }

WindValues == {5999, 6000, 6001, 7000, 20000}

\* At most MaxWinds wind readings with the given values.
WindLists(values) ==
    UNION { [1..n -> values] : n \in 0..MaxWinds }

WindsAt(reading, values) ==
    [i \in 1..Len(values) |-> [reading EXCEPT !.value = values[i]]]

\* Wind readings of Chennai Coast, then of Mumbai Coast, around the
\* threshold of 60 km/h.
WindInputs ==
    { WindsAt(ChennaiReadings[2], c) \o WindsAt(MumbaiReadings[2], m) :
          c \in WindLists(WindValues), m \in WindLists({6000, 6001}) }

QualityValues == {0, 1000, 3999, 4000, 4001}

\* At most MaxQualities water-quality readings with the given values.
QualityLists(values) ==
    UNION { [1..n -> values] : n \in 0..MaxQualities }

\* Water-quality readings of Chennai Coast around the threshold of 40 ppm,
\* then none or one of Mumbai Coast, then none or one wind reading of
\* Chennai Coast.
QualityInputs ==
    { WindsAt(ChennaiReadings[3], c) \o WindsAt(MumbaiReadings[3], m)
          \o WindsAt(ChennaiReadings[2], w) :
          c \in QualityLists(QualityValues),
          m \in {<<>>, <<3999>>, <<4000>>},
          w \in {<<>>, <<7000>>} }

\* Tide readings of Chennai Coast: equal readings of 2.00 m and one apart,
\* few enough for a z-score below the caps and enough for one above them;
\* then none or one wind reading of Chennai Coast.
TideReadingInputs ==
    { WindsAt(ChennaiReadings[1], [i \in 1..n |-> IF i = k THEN v ELSE 200])
          \o WindsAt(ChennaiReadings[2], w) :
          n \in {5, 6, 12, 14}, k \in {1, 3}, v \in {10, 200, 390},
          w \in {<<>>, <<7000>>} }

\* Reading lists for detectAnomalies.
AnomalyInputs == WindInputs \cup QualityInputs \cup TideReadingInputs

----------------------------------------------------------------------------
(* The JavaScript Number: binary floating point, every operation rounded   *)
(* to the nearest number of MantissaBits significant bits, ties to even.   *)
(* A number is m * 2^e with 2^(MantissaBits-1) <= |m| < 2^MantissaBits, or *)
(* m = 0 and e = 0.  The exponent is not bounded: no overflow, no          *)
(* subnormal numbers.                                                      *)

RECURSIVE Pow2(_)
Pow2(k) == IF k = 0 THEN 1 ELSE 2 * Pow2(k - 1)

\* The number of bits of n >= 0.
RECURSIVE BitLength(_)
BitLength(n) == IF n = 0 THEN 0 ELSE 1 + BitLength(n \div 2)

FloatZero == [m |-> 0, e |-> 0]

\* sign * n * 2^e for an integer n >= 0, rounded to nearest, ties to even.
RoundToNearest(sign, n, e) ==
    IF n = 0 THEN FloatZero
    ELSE LET len == BitLength(n)
         IN  IF len <= MantissaBits
             THEN [m |-> sign * n * Pow2(MantissaBits - len),
                   e |-> e - (MantissaBits - len)]
             ELSE LET shift == len - MantissaBits
                      q == n \div Pow2(shift)
                      r == n % Pow2(shift)
                      half == Pow2(shift - 1)
                      up == IF r > half \/ (r = half /\ q % 2 = 1)
                            THEN q + 1 ELSE q
                  IN  IF up = Pow2(MantissaBits)
                      THEN [m |-> sign * (up \div 2), e |-> e + shift + 1]
                      ELSE [m |-> sign * up, e |-> e + shift]

Sign(n) == IF n < 0 THEN -1 ELSE 1
Abs(n) == IF n < 0 THEN -n ELSE n

\* An integer below 2^MantissaBits as a number.
FromInt(n) == RoundToNearest(Sign(n), Abs(n), 0)

\* a + b
FAdd(a, b) ==
    IF a.m = 0 THEN b
    ELSE IF b.m = 0 THEN a
    ELSE LET hi == IF a.e >= b.e THEN a ELSE b
             lo == IF a.e >= b.e THEN b ELSE a
             d == hi.e - lo.e
         IN  IF d > MantissaBits + 2 THEN hi
             ELSE LET n == hi.m * Pow2(d) + lo.m
                  IN  RoundToNearest(Sign(n), Abs(n), lo.e)

FNeg(a) == [a EXCEPT !.m = -a.m]

\* a - b
FSub(a, b) == FAdd(a, FNeg(b))

\* a * b
FMul(a, b) ==
    RoundToNearest(Sign(a.m * b.m), Abs(a.m * b.m), a.e + b.e)

\* a / b, for b # 0: the quotient to MantissaBits + 2 bits and a sticky bit
\* for the remainder, then rounded.
FDiv(a, b) ==
    IF a.m = 0 THEN FloatZero
    ELSE LET n == Abs(a.m) * Pow2(MantissaBits + 2)
             q == n \div Abs(b.m)
             sticky == IF n % Abs(b.m) = 0 THEN 0 ELSE 1
         IN  RoundToNearest(Sign(a.m) * Sign(b.m), 2 * q + sticky,
                            a.e - b.e - (MantissaBits + 2) - 1)

\* The largest s with s * s <= n.
RECURSIVE IntSqrt(_, _, _)
IntSqrt(n, lo, hi) ==
    IF lo = hi THEN lo
    ELSE LET mid == (lo + hi + 1) \div 2
         IN  IF mid * mid <= n THEN IntSqrt(n, mid, hi) ELSE IntSqrt(n, lo, mid - 1)

\* Math.sqrt(a), for a >= 0
FSqrt(a) ==
    IF a.m = 0 THEN FloatZero
    ELSE LET k == IF (a.e - (MantissaBits + 2)) % 2 = 0
                  THEN MantissaBits + 2 ELSE MantissaBits + 3
             n == a.m * Pow2(k)
             root == IntSqrt(n, 0, Pow2(MantissaBits + 2))
             sticky == IF root * root = n THEN 0 ELSE 1
         IN  RoundToNearest(1, 2 * root + sticky, ((a.e - k) \div 2) - 1)

\* Math.abs(a)
FAbs(a) == [a EXCEPT !.m = Abs(a.m)]

\* a > b
FGreater(a, b) == FSub(a, b).m > 0

\* Math.min(a, b)
FMin(a, b) == IF FGreater(a, b) THEN b ELSE a

\* The number a decimal with two places denotes: h / 100 rounded once.
Decimal(h) == FDiv(FromInt(h), FromInt(100))

\* reduce((sum, s) => sum + s.value, 0)
RECURSIVE FSum(_, _)
FSum(values, sum) ==
    IF values = <<>> THEN sum ELSE FSum(Tail(values), FAdd(sum, Head(values)))

\* reduce((sum, s) => sum + Math.pow(s.value - avgTide, 2), 0)
RECURSIVE FSumSquares(_, _, _)
FSumSquares(values, avgTide, sum) ==
    IF values = <<>> THEN sum
    ELSE FSumSquares(Tail(values), avgTide,
                     FAdd(sum, FMul(FSub(Head(values), avgTide),
                                    FSub(Head(values), avgTide))))

NoAnomaly ==
    [flagged |-> FALSE, threatType |-> <<>>,
     probability |-> FloatZero, confidence |-> FloatZero]

\* The tide pass of detectAnomalies over the tide readings of one location,
\* in the arithmetic of the code.  tides are the values in hundredths of a
\* metre; the result says for each reading whether it is pushed as an
\* anomaly and with what.  A zero tideStdDev makes the z-score NaN (0 / 0,
\* never above 2) or Infinity.
tidePass(tides) ==
    LET values == [i \in 1..Len(tides) |-> Decimal(tides[i])]
        avgTide == FDiv(FSum(values, FloatZero), FromInt(Len(tides)))
        tideStdDev == FSqrt(FDiv(FSumSquares(values, avgTide, FloatZero),
                                 FromInt(Len(tides))))
        Prediction(value) ==
            LET diff == FSub(value, avgTide)
                type == IF FGreater(value, avgTide)
                        THEN StormSurgeRisk ELSE UnusualLowTide
            IN  IF tideStdDev.m = 0
                THEN IF diff.m = 0 THEN NoAnomaly
                     ELSE [flagged |-> TRUE, threatType |-> type,
                           probability |-> Decimal(95), confidence |-> Decimal(90)]
                ELSE LET zScore == FAbs(FDiv(diff, tideStdDev))
                     IN  IF FGreater(zScore, FromInt(2))
                         THEN [flagged |-> TRUE, threatType |-> type,
                               probability |-> FMin(FMul(zScore, Decimal(30)), Decimal(95)),
                               confidence |-> FMin(FMul(zScore, Decimal(25)), Decimal(90))]
                         ELSE NoAnomaly
    IN  [i \in 1..Len(tides) |-> Prediction(values[i])]

\* Tide readings of one location: equal readings and one apart.
TideInputs ==
    { [i \in 1..n |-> IF i = n THEN 200 + d ELSE 200] :
          n \in 5..6, d \in {0, 10, 20, 50, 190} }

\* The constant added to every tide value, in hundredths.
Offsets == {0, 10, 20, 50, 100}

Translate(tides, offset) == [i \in 1..Len(tides) |-> tides[i] + offset]

----------------------------------------------------------------------------
(* detectThreats of src/lib/api.ts. *)

\* The tide test with >= for >.
IsTideThreatOrEqual(data) == data.type = "tide_gauge" /\ data.value >= TideAlertLevel

\* data.type === 'tide_gauge' && data.value > 2.5
IsTideThreat(data) == data.type = "tide_gauge" /\ data.value > TideAlertLevel

\* data.type === 'weather_station' && data.value > 60
IsWindThreat(data) == data.type = "weather_station" /\ data.value > WindAlertLevel

\* The forEach body with the name of the reading's location in the ids.
ThreatsOfReadingNamed(data, t) ==
    (IF IsTideThreat(data)
     THEN << [id |-> <<"m","l","_","t","h","r","e","a","t","_">> \o NumberToString(t)
                         \o <<"_">> \o data.location.name,
              type |-> StormSurge,
              severity |-> IF data.value > TideCriticalLevel THEN "critical" ELSE "high",
              location |-> data.location,
              description |-> <<"Abnormal tide level detected", data.value, data.unit>>,
              timestamp |-> t,
              estimatedImpact |-> t + TideImpactDelay,
              affectedAreas |-> <<data.location.name \o <<" ","v","i","c","i","n","i","t","y">> >>] >>
     ELSE <<>>)
    \o
    (IF IsWindThreat(data)
     THEN << [id |-> <<"m","l","_","t","h","r","e","a","t","_">> \o NumberToString(t)
                         \o <<"_","w","i","n","d","_">> \o data.location.name,
              type |-> Cyclone,
              severity |-> IF data.value > WindCriticalLevel THEN "critical" ELSE "high",
              location |-> data.location,
              description |-> <<"High wind speeds detected", data.value, data.unit>>,
              timestamp |-> t,
              estimatedImpact |-> t + WindImpactDelay,
              affectedAreas |-> <<data.location.name \o <<" ","r","e","g","i","o","n">> >>] >>
     ELSE <<>>)

\* The alerts the forEach body pushes for one reading, at Date.now() = t.
ThreatsOfReading(data, t) ==
    (IF IsTideThreat(data)
     THEN << [id |-> <<"m","l","_","t","h","r","e","a","t","_">> \o NumberToString(t),
              type |-> StormSurge,
              severity |-> IF data.value > TideCriticalLevel THEN "critical" ELSE "high",
              location |-> data.location,
              description |-> <<"Abnormal tide level detected", data.value, data.unit>>,
              timestamp |-> t,
              estimatedImpact |-> t + TideImpactDelay,
              affectedAreas |-> <<data.location.name \o <<" ","v","i","c","i","n","i","t","y">> >>] >>
     ELSE <<>>)
    \o
    (IF IsWindThreat(data)
     THEN << [id |-> <<"m","l","_","t","h","r","e","a","t","_">> \o NumberToString(t)
                         \o <<"_","w","i","n","d">>,
              type |-> Cyclone,
              severity |-> IF data.value > WindCriticalLevel THEN "critical" ELSE "high",
              location |-> data.location,
              description |-> <<"High wind speeds detected", data.value, data.unit>>,
              timestamp |-> t,
              estimatedImpact |-> t + WindImpactDelay,
              affectedAreas |-> <<data.location.name \o <<" ","r","e","g","i","o","n">> >>] >>
     ELSE <<>>)

\* detectThreats(sensorData), after its delay, with readings for sensorData;
\* ticks[i] is Date.now() while the forEach is at readings[i].
RECURSIVE detectThreats(_, _)
detectThreats(readings, ticks) ==
    IF readings = <<>> THEN <<>>
    ELSE ThreatsOfReading(Head(readings), Head(ticks))
         \o detectThreats(Tail(readings), Tail(ticks))

\* Readings at and around the four levels of detectThreats, of every type.
ThreatReadingPool ==
    { [ChennaiReadings[1] EXCEPT !.value = v] : v \in {250, 251, 300, 301} } \cup
    { [MumbaiReadings[2] EXCEPT !.value = v] : v \in {6000, 6001, 8000, 8001} } \cup
    { [ChennaiReadings[3] EXCEPT !.value = 9000],
      [MumbaiReadings[1] EXCEPT !.type = "seismic", !.value = 900, !.unit = "magnitude"] }

ThreatInputs == UNION { [1..n -> ThreatReadingPool] : n \in 0..MaxThreatReadings }

\* Date.now() through the forEach: it stands still, or a millisecond passes
\* after the first reading.
ClockReadings(n) ==
    { [i \in 1..n |-> DetectDelay],
      [i \in 1..n |-> IF i = 1 THEN DetectDelay ELSE DetectDelay + 1] }

\* The alert the heuristic raises for a 200 km/h wind reading at Mumbai Coast;
\* its probability is capped at 0.95, so its severity is critical.
CriticalAlert ==
    LET data == WindsAt(MumbaiReadings[2], <<20000>>)
    IN  ThreatsFrom(detectAnomalies(data), 1, data, 0, <<"k3x9">>)[1]

-----------------------------------------------------------------------------
(* The Chat Assistant (ChatBot in src/unnamed/part_003): generateResponse,  *)
(* the message log, the reply timeouts and the 3D avatar's render loop.     *)
(* A reply is the sequence of the pieces of its template string: the        *)
(* literal pieces as they stand, the computed ones character by character.  *)

\* s.includes(t)
Includes(s, t) ==
    \E i \in 0..(Len(s) - Len(t)) : SubSeq(s, i + 1, i + Len(t)) = t

\* s.trim()
RECURSIVE TrimStart(_)
TrimStart(s) ==
    IF s # <<>> /\ Head(s) \in WhiteSpace THEN TrimStart(Tail(s)) ELSE s

RECURSIVE TrimEnd(_)
TrimEnd(s) ==
    IF s # <<>> /\ s[Len(s)] \in WhiteSpace
    THEN TrimEnd(SubSeq(s, 1, Len(s) - 1)) ELSE s

Trim(s) == TrimEnd(TrimStart(s))

RECURSIVE Pow10(_)
Pow10(k) == IF k = 0 THEN 1 ELSE 10 * Pow10(k - 1)

\* The k decimal digits of i, with leading zeros.
RECURSIVE PadDigits(_, _)
PadDigits(i, k) ==
    IF k = 0 THEN <<>>
    ELSE PadDigits(i \div 10, k - 1) \o <<DigitChars[(i % 10) + 1]>>

\* (n / d).toFixed(places) for n >= 0 and d > 0: the quotient rounded to the
\* nearest multiple of 10^-places, a quotient half-way between two rounded up.
ToFixed(n, d, places) ==
    LET scaled == (2 * n * Pow10(places) + d) \div (2 * d)
    IN  NumberToString(scaled \div Pow10(places)) \o <<".">>
        \o PadDigits(scaled % Pow10(places), places)

\* NaN.toFixed(k) and (-Infinity).toFixed(k)
NaNString == <<"N","a","N">>
MinusInfinityString == <<"-","I","n","f","i","n","i","t","y">>

\* The substrings generateResponse looks for.
Keyword ==
    [ tide |-> <<"t","i","d","e">>,
      waterLevel |-> <<"w","a","t","e","r"," ","l","e","v","e","l">>,
      wind |-> <<"w","i","n","d">>,
      weather |-> <<"w","e","a","t","h","e","r">>,
      alert |-> <<"a","l","e","r","t">>,
      threat |-> <<"t","h","r","e","a","t">>,
      quality |-> <<"q","u","a","l","i","t","y">>,
      pollution |-> <<"p","o","l","l","u","t","i","o","n">>,
      location |-> <<"l","o","c","a","t","i","o","n">>,
      where |-> <<"w","h","e","r","e">>,
      prediction |-> <<"p","r","e","d","i","c","t","i","o","n">>,
      forecast |-> <<"f","o","r","e","c","a","s","t">>,
      help |-> <<"h","e","l","p">>,
      whatCanYou |-> <<"w","h","a","t"," ","c","a","n"," ","y","o","u">> ]

\* The if-chain with the alert test moved to the front.
TopicOfAlertFirst(message) ==
    IF Includes(message, Keyword.alert) \/ Includes(message, Keyword.threat)
    THEN "alert"
    ELSE IF Includes(message, Keyword.tide) \/ Includes(message, Keyword.waterLevel)
    THEN "tide"
    ELSE IF Includes(message, Keyword.wind) \/ Includes(message, Keyword.weather)
    THEN "wind"
    ELSE IF Includes(message, Keyword.quality) \/ Includes(message, Keyword.pollution)
    THEN "quality"
    ELSE IF Includes(message, Keyword.location) \/ Includes(message, Keyword.where)
    THEN "location"
    ELSE IF Includes(message, Keyword.prediction) \/ Includes(message, Keyword.forecast)
    THEN "prediction"
    ELSE IF Includes(message, Keyword.help) \/ Includes(message, Keyword.whatCanYou)
    THEN "help"
    ELSE "default"

\* The branch of generateResponse the lower-cased message takes: the first
\* if whose test holds, in source order.
TopicOf(message) ==
    IF Includes(message, Keyword.tide) \/ Includes(message, Keyword.waterLevel)
    THEN "tide"
    ELSE IF Includes(message, Keyword.wind) \/ Includes(message, Keyword.weather)
    THEN "wind"
    ELSE IF Includes(message, Keyword.alert) \/ Includes(message, Keyword.threat)
    THEN "alert"
    ELSE IF Includes(message, Keyword.quality) \/ Includes(message, Keyword.pollution)
    THEN "quality"
    ELSE IF Includes(message, Keyword.location) \/ Includes(message, Keyword.where)
    THEN "location"
    ELSE IF Includes(message, Keyword.prediction) \/ Includes(message, Keyword.forecast)
    THEN "prediction"
    ELSE IF Includes(message, Keyword.help) \/ Includes(message, Keyword.whatCanYou)
    THEN "help"
    ELSE "default"

\* The tide branch: avgTide is 0 / 0 = NaN when there is no tide reading.
TideReply(data) ==
    LET tideData == OfType(data, "tide_gauge")
    IN  <<"Current average tide level is ">>
        \o (IF tideData = <<>> THEN NaNString
            ELSE ToFixed(SumValues(tideData), 100 * Len(tideData), 2))
        \o <<" meters. ">>
        \o (IF \E i \in 1..Len(tideData) : tideData[i].status # "normal"
            THEN <<"Some stations are showing abnormal readings that require attention.">>
            ELSE <<"All tide gauges are operating within normal parameters.">>)

\* The wind branch: Math.max() of no argument is -Infinity.
WindReply(data) ==
    LET weatherData == OfType(data, "weather_station")
    IN  <<"Current maximum wind speed is ">>
        \o (IF weatherData = <<>> THEN MinusInfinityString
            ELSE ToFixed(MaxValue(weatherData), 100, 1))
        \o <<" km/h. ">>
        \o (IF weatherData # <<>> /\ MaxValue(weatherData) > 5000
            THEN <<"High wind conditions detected - monitoring for potential storm development.">>
            ELSE <<"Wind conditions are within normal ranges.">>)

AlertReply(alertList) ==
    IF Len(alertList) = 0
    THEN <<"No active threats detected. All coastal monitoring systems are showing normal conditions.">>
    ELSE LET criticalAlerts ==
                 Len(SelectSeq(alertList, LAMBDA a : a.severity = "critical"))
         IN  <<"Currently tracking ">> \o NumberToString(Len(alertList))
             \o <<" active alerts. ">>
             \o (IF criticalAlerts > 0
                 THEN NumberToString(criticalAlerts)
                      \o <<" are marked as critical and require immediate attention.">>
                 ELSE <<"All alerts are at manageable levels.">>)

\* The quality branch: NaN < 50 is false.
QualityReply(data) ==
    LET qualityData == OfType(data, "water_quality")
    IN  <<"Average water quality index is ">>
        \o (IF qualityData = <<>> THEN NaNString
            ELSE ToFixed(SumValues(qualityData), 100 * Len(qualityData), 1))
        \o <<" ppm. ">>
        \o (IF qualityData # <<>>
               /\ SumValues(qualityData) < 5000 * Len(qualityData)
            THEN <<"Some areas showing concerning pollution levels.">>
            ELSE <<"Water quality is within acceptable parameters.">>)

\* names.join(', ')
RECURSIVE Join(_)
Join(names) ==
    IF names = <<>> THEN <<>>
    ELSE IF Len(names) = 1 THEN Head(names)
    ELSE Head(names) \o <<",", " ">> \o Join(Tail(names))

\* [...new Set(sensorData.map(s => s.location.name))] keeps first occurrences.
LocationReply(data) ==
    <<"I'm monitoring ">> \o NumberToString(Len(LocationKeys(data)))
    \o <<" coastal locations: ">> \o Join(LocationKeys(data))
    \o <<". Each location has multiple sensor types providing real-time data.">>

PredictionReply ==
    <<"Based on current patterns, I'm analyzing tidal cycles, weather trends, and historical data to predict potential coastal threats. The ML models show varying confidence levels for different threat types across monitored locations.">>

HelpReply ==
    <<"I can help you with: Real-time sensor data analysis, Tide and weather monitoring, Threat alert explanations, Historical trend analysis, ML prediction insights, and Location-specific information. Just ask me about any coastal monitoring topic!">>

defaultResponses ==
    << <<"I'm analyzing the coastal data to provide you with the most accurate information. Could you be more specific about what you'd like to know?">>,
       <<"Based on the current sensor readings, I can help you understand various aspects of coastal conditions. What specific data interests you?">>,
       <<"I have access to real-time data from multiple coastal monitoring stations. How can I assist with your coastal threat analysis?">> >>

\* generateResponse(userMessage) as rendered with the props data and
\* alertList; r is the Math.random() draw of the default branch, in hundredths.
generateResponse(userMessage, data, alertList, r) ==
    LET message == ToLowerCase(userMessage)
        topic == TopicOf(message)
    IN  CASE topic = "tide" -> TideReply(data)
          [] topic = "wind" -> WindReply(data)
          [] topic = "alert" -> AlertReply(alertList)
          [] topic = "quality" -> QualityReply(data)
          [] topic = "location" -> LocationReply(data)
          [] topic = "prediction" -> PredictionReply
          [] topic = "help" -> HelpReply
          [] OTHER -> defaultResponses[((r * Len(defaultResponses)) \div 100) + 1]

\* Messages a user may type; the first three are those of the quick buttons.
Message ==
    [ tideLevels |-> <<"W","h","a","t"," ","a","r","e"," ","t","h","e"," ","c","u","r","r","e","n","t"," ","t","i","d","e"," ","l","e","v","e","l","s","?">>,
      activeAlerts |-> <<"S","h","o","w"," ","m","e"," ","a","c","t","i","v","e"," ","a","l","e","r","t","s">>,
      weatherPatterns |-> <<"A","n","a","l","y","z","e"," ","w","e","a","t","h","e","r"," ","p","a","t","t","e","r","n","s">>,
      tideAlert |-> <<"T","i","d","e"," ","a","l","e","r","t">>,
      alertTide |-> <<"a","n","y"," ","A","L","E","R","T"," ","o","n"," ","t","h","e"," ","t","i","d","e">>,
      weather |-> <<"w","e","a","t","h","e","r">>,
      waterLevel |-> <<"W","a","t","e","r"," ","L","e","v","e","l">>,
      threat |-> <<"t","h","r","e","a","t">>,
      pollution |-> <<"p","o","l","l","u","t","i","o","n">>,
      quality |-> <<"q","u","a","l","i","t","y"," ","n","o","w">>,
      where |-> <<"w","h","e","r","e">>,
      location |-> <<"L","o","c","a","t","i","o","n"," ","h","e","l","p">>,
      forecast |-> <<"f","o","r","e","c","a","s","t">>,
      prediction |-> <<"p","r","e","d","i","c","t","i","o","n">>,
      help |-> <<"h","e","l","p">>,
      whatCanYou |-> <<"W","h","a","t"," ","c","a","n"," ","y","o","u"," ","d","o">>,
      wind |-> <<"w","i","n","d">>,
      hello |-> <<"h","e","l","l","o">>,
      blank |-> <<" "," "," ">>,
      empty |-> <<>> ]

\* The reading lists generateResponse is called with: none, and the
\* generator's fifteen readings with the wind of Chennai Coast below, at and
\* above 50 km/h and its tide gauge normal or not.
ResponseDraws ==
    { [CalmDraws EXCEPT !.wind = w, !.tideStatus = s, !.quality = q] :
          w \in {50, 60, 61}, s \in {0, 81}, q \in {50} }
    \cup { [CalmDraws EXCEPT !.quality = 49, !.tide = 33] }

ResponseReadings ==
    {<<>>} \cup { generateMockSensorData(DrawsFor(d), 0) : d \in ResponseDraws }

\* ... and the alert lists: none, the generator's two, and those with the
\* critical alert of the heuristic.
ResponseAlerts ==
    {<<>>, generateMockAlerts(0), Append(generateMockAlerts(0), CriticalAlert)}

ResponseMessages ==
    {Message.tideLevels, Message.activeAlerts, Message.weatherPatterns,
     Message.tideAlert, Message.alertTide, Message.weather, Message.waterLevel,
     Message.threat, Message.pollution, Message.quality, Message.where,
     Message.location, Message.forecast, Message.prediction, Message.help,
     Message.whatCanYou, Message.wind, Message.hello, Message.blank, Message.empty}

\* Math.random() draws on both sides of 1/3 and of 2/3.
ResponseDrawValues == {0, 33, 34, 66, 67, 99}

-----------------------------------------------------------------------------

InitApi == PushIdle /\ ApiIdle /\ AuthIdle /\ ViewIdle

CallAuthenticateUser ==
    /\ op = "none"
    /\ \E email \in Emails, password \in Passwords :
           /\ op' = "authenticateUser"
           /\ args' = [email |-> email, password |-> password]
           /\ result' = authenticateUser(email, password)
    /\ UNCHANGED <<pushVars, authVars, viewVars>>

CallGetHistoricalData ==
    /\ op = "none"
    /\ \E startDate \in StartDates, length \in RangeLengths, r \in {0, 99} :
           /\ op' = "getHistoricalData"
           /\ args' = [startDate |-> startDate, endDate |-> startDate + length]
           /\ result' = getHistoricalData(startDate, startDate + length, r)
    /\ UNCHANGED <<pushVars, authVars, viewVars>>

CallGenerateMockSensorData ==
    /\ op = "none"
    /\ \E d \in GeneratorDraws :
           /\ op' = "generateMockSensorData"
           /\ args' = d
           /\ result' = generateMockSensorData([i \in 1..Len(locations) |-> d], now)
    /\ UNCHANGED <<pushVars, authVars, viewVars>>

CallDetectAnomalies ==
    /\ op = "none"
    /\ \E data \in AnomalyInputs :
           /\ op' = "detectAnomalies"
           /\ args' = data
           /\ result' = detectAnomalies(data)
    /\ UNCHANGED <<pushVars, authVars, viewVars>>

\* The draws of a generated snapshot: Chennai Coast and Mumbai Coast around
\* the wind of 60 km/h and the water quality of 12 and of 40 ppm.
SnapshotDraws ==
    { [i \in 1..Len(locations) |->
           IF i = 1 THEN [CalmDraws EXCEPT !.tide = t, !.wind = w, !.quality = q]
           ELSE IF i = 2 THEN [CalmDraws EXCEPT !.wind = m, !.quality = m - 69]
           ELSE CalmDraws] :
          t \in {0, 50, 99}, w \in {0, 80, 81, 99}, q \in {0, 11, 12, 39, 40},
          m \in {80, 99} }

\* The numbers of tide readings pushed after the snapshot, and their draw.
PushedTides == {0, 5, 6}
PushedTideDraws == {0, 99}

\* The reading list the heuristic sees when every reading comes from the
\* generator: a snapshot, then pushed first elements of further snapshots.
GeneratedReadings(draws, pushed, draw) ==
    generateMockSensorData(draws, now)
    \o [i \in 1..pushed |->
            generateMockSensorData(
                [j \in 1..Len(locations) |->
                     [CalmDraws EXCEPT !.tide = draw]], now)[1]]

\* detectAnomalies on generated readings.
CallDetectAnomaliesGenerated ==
    /\ op = "none"
    /\ \E draws \in SnapshotDraws, pushed \in PushedTides, draw \in PushedTideDraws :
           \E data \in {GeneratedReadings(draws, pushed, draw)} :
               /\ op' = "detectAnomaliesGenerated"
               /\ args' = data
               /\ result' = detectAnomalies(data)
    /\ UNCHANGED <<pushVars, authVars, viewVars>>

CallDetectThreats ==
    /\ op = "none"
    /\ \E sensors \in ThreatInputs :
           \E ticks \in ClockReadings(Len(sensors)) :
               /\ op' = "detectThreats"
               /\ args' = sensors
               /\ result' = detectThreats(sensors, ticks)
    /\ UNCHANGED <<pushVars, authVars, viewVars>>

\* The tide pass over a list of tide values and over the same values with a
\* constant added.
CallTidePass ==
    /\ op = "none"
    /\ \E tides \in TideInputs, offset \in Offsets :
           /\ op' = "tidePass"
           /\ args' = [tides |-> tides, offset |-> offset]
           /\ result' = <<tidePass(tides), tidePass(Translate(tides, offset))>>
    /\ UNCHANGED <<pushVars, authVars, viewVars>>

\* The caller has taken the result; the next call can be made.
Return ==
    /\ op # "none"
    /\ op' = "none"
    /\ args' = <<>>
    /\ result' = <<>>
    /\ UNCHANGED <<pushVars, authVars, viewVars>>

CallGenerateResponse ==
    /\ op = "none"
    /\ \E userMessage \in ResponseMessages, data \in ResponseReadings,
          alertList \in ResponseAlerts, r \in ResponseDrawValues :
           /\ op' = "generateResponse"
           /\ args' = [userMessage |-> userMessage, sensorData |-> data,
                       alerts |-> alertList, random |-> r]
           /\ result' = generateResponse(userMessage, data, alertList, r)
    /\ UNCHANGED <<pushVars, authVars, viewVars>>

NextApi ==
    \/ Return
    \/ CallAuthenticateUser
    \/ CallGetHistoricalData
    \/ CallGenerateMockSensorData
    \/ CallDetectAnomalies
    \/ CallDetectAnomaliesGenerated
    \/ CallDetectThreats
    \/ CallTidePass
    \/ CallGenerateResponse

SpecApi == InitApi /\ [][NextApi]_vars

\* C6: authenticateUser does not depend on the password: the email of
\* Dr. Rajesh Kumar gives the roster record user_001 of the National
\* Disaster Management Authority, an email that is not exactly one of the two
\* roster emails gives null, and every other password gives the same result.
C6_PasswordIndependent ==
    op = "authenticateUser" =>
        /\ args.email = "rajesh@emergency.gov.in" =>
               /\ Len(result) = 1
               /\ result[1].id = "user_001"
               /\ result[1].role = "emergency_manager"
               /\ result[1].organization = "National Disaster Management Authority"
               /\ result[1] = mockUsers[1]
        /\ args.email \notin {"rajesh@emergency.gov.in", "priya@coastal.ngo"} =>
               result = <<>>
        /\ \A p \in Passwords : authenticateUser(args.email, p) = result

\* The email of Dr. Rajesh Kumar with the empty password got the record of
\* user_001.
C6_Witness ==
    /\ op = "authenticateUser"
    /\ args = [email |-> "rajesh@emergency.gov.in", password |-> ""]
    /\ result = <<mockUsers[1]>>
    /\ result[1].id = "user_001"

\* C8: for endDate >= startDate, getHistoricalData returns
\* ceil((endDate - startDate) / 1 day) records, none for an empty range;
\* record i has the timestamp startDate + i days and the id historical_i,
\* so timestamps increase strictly and ids are pairwise distinct; every
\* record is a normal tide-gauge reading of Chennai Coast.
C8_HistoricalRecords ==
    (op = "getHistoricalData" /\ args.endDate >= args.startDate) =>
        LET n == Len(result)
            range == args.endDate - args.startDate
        IN  /\ n * MsPerDay >= range
            /\ (n - 1) * MsPerDay < range
            /\ range = 0 => n = 0
            /\ \A k \in 1..n :
                   /\ result[k].timestamp = args.startDate + (k - 1) * MsPerDay
                   /\ result[k].id = <<"h","i","s","t","o","r","i","c","a","l","_">>
                                         \o NumberToString(k - 1)
                   /\ result[k].type = "tide_gauge"
                   /\ result[k].location.name = ChennaiCoast
                   /\ result[k].status = "normal"
            /\ \A j, k \in 1..n :
                   j < k => /\ result[j].timestamp < result[k].timestamp
                            /\ result[j].id # result[k].id

\* A range of two days and one millisecond got three records, the last with
\* the id historical_2.
C8_Witness ==
    /\ op = "getHistoricalData"
    /\ args.endDate - args.startDate = 2 * MsPerDay + 1
    /\ Len(result) = 3
    /\ result[3].id = <<"h","i","s","t","o","r","i","c","a","l","_","2">>

\* C9: generateMockSensorData returns 15 readings, one for each of the five
\* locations and each of tide_gauge, weather_station and water_quality; every
\* location is of the roster, every type of the type enumeration and none is
\* seismic, and the ids are pairwise distinct.
C9_FifteenReadings ==
    op = "generateMockSensorData" =>
        /\ Len(result) = 15
        /\ \A name \in {ChennaiCoast, MumbaiCoast, GoaCoast, PuducherryCoast, KeralaCoast} :
               \A type \in {"tide_gauge", "weather_station", "water_quality"} :
                   Cardinality({ i \in 1..Len(result) :
                                     /\ result[i].location.name = name
                                     /\ result[i].type = type }) = 1
        /\ \A i \in 1..Len(result) :
               /\ \E j \in 1..Len(locations) : result[i].location = locations[j]
               /\ result[i].type \in SensorTypes
               /\ result[i].type # "seismic"
        /\ \A i, j \in 1..Len(result) : i < j => result[i].id # result[j].id

\* A generated list whose Kerala Coast water-quality reading is the fifteenth
\* and whose draws gave a critical weather station.
C9_Witness ==
    /\ op = "generateMockSensorData"
    /\ Len(result) = 15
    /\ result[15].id = <<"q","u","a","l","i","t","y","_","K","e","r","a","l","a","_","C","o","a","s","t">>
    /\ \E i \in 1..Len(result) : result[i].status = "critical"

WindsOf(data, name) ==
    { data[i].value : i \in { j \in 1..Len(data) :
                                  /\ data[j].type = "weather_station"
                                  /\ data[j].location.name = name } }

CyclonicCount(preds, name) ==
    Cardinality({ i \in 1..Len(preds) :
                      /\ preds[i].threatType = CyclonicActivity
                      /\ preds[i].location = name })

\* C10: detectAnomalies gives a location exactly one Cyclonic Activity
\* prediction when some weather-station value there is above 60 km/h and
\* none otherwise; a maximum of exactly 60 gives none.
C10_CyclonicStrictlyAboveSixty ==
    op = "detectAnomalies" =>
        \A name \in {ChennaiCoast, MumbaiCoast} :
            /\ (\E v \in WindsOf(args, name) : v > 6000)
                   => CyclonicCount(result, name) = 1
            /\ (\A v \in WindsOf(args, name) : v <= 6000)
                   => CyclonicCount(result, name) = 0
            /\ (6000 \in WindsOf(args, name) /\ \A v \in WindsOf(args, name) : v <= 6000)
                   => CyclonicCount(result, name) = 0

\* Chennai Coast with two wind readings above 60 km/h and Mumbai Coast with a
\* maximum of exactly 60: one prediction, for Chennai Coast.
C10_Witness ==
    /\ op = "detectAnomalies"
    /\ WindsOf(args, ChennaiCoast) = {6001, 7000}
    /\ WindsOf(args, MumbaiCoast) = {6000}
    /\ Len(result) = 1
    /\ result[1].location = ChennaiCoast
    /\ result[1].threatType = CyclonicActivity

----------------------------------------------------------------------------
(* The Auth Stub: AuthProvider of src/components/AuthSystem.tsx, over a    *)
(* localStorage that outlives the page.                                    *)

\* JSON.stringify(u) for a User, as the sequence of its tokens.
JSONStringify(u) ==
    <<"{", "id", ":", u.id, "name", ":", u.name, "email", ":", u.email,
      "role", ":", u.role, "organization", ":", u.organization,
      "permissions", ":", "[">> \o u.permissions \o <<"]", "}">>

\* The value of a key in the tokens of a stringified object.
JSONValue(text, key) ==
    text[(CHOOSE i \in 1..Len(text) : text[i] = key /\ text[i + 1] = ":") + 2]

\* The array that follows a key.
JSONArray(text, key) ==
    LET open == (CHOOSE i \in 1..Len(text) : text[i] = key /\ text[i + 1] = ":") + 2
        close == CHOOSE j \in open..Len(text) :
                     text[j] = "]" /\ \A k \in open..(j - 1) : text[k] # "]"
    IN  SubSeq(text, open + 1, close - 1)

\* JSON.parse(text) for the text of a User.
JSONParse(text) ==
    [id |-> JSONValue(text, "id"),
     name |-> JSONValue(text, "name"),
     email |-> JSONValue(text, "email"),
     role |-> JSONValue(text, "role"),
     organization |-> JSONValue(text, "organization"),
     permissions |-> JSONArray(text, "permissions")]

\* localStorage.getItem(key): <<string>>, or <<>> for null
getItem(storage, key) ==
    IF \E e \in storage : e[1] = key
    THEN <<(CHOOSE e \in storage : e[1] = key)[2]>>
    ELSE <<>>

\* A setItem that stores nothing.
setItemDropped(storage, key, value) == storage

\* localStorage.setItem(key, value)
setItem(storage, key, value) ==
    {e \in storage : e[1] # key} \cup {<<key, value>>}

\* A removeItem that removes nothing.
removeItemKept(storage, key) == storage

\* localStorage.removeItem(key)
removeItem(storage, key) == {e \in storage : e[1] # key}

\* Each step is recorded with what it leaves: the current user, the storage,
\* what login returned last, and the number of logins still awaiting
\* authenticateUser.
Record(kind) ==
    history' = Append(history, [kind |-> kind, user |-> user',
                                stored |-> localStorage',
                                returned |-> returned',
                                pending |-> Len(logins')])

\* The page is opened on a browser that holds no session or the session a
\* login of Priya Sharma left.
InitAuth ==
    /\ PushIdle /\ ApiIdle /\ ViewIdle
    /\ user = <<>>
    /\ localStorage \in {{}, setItem({}, "coastal_user", JSONStringify(mockUsers[2]))}
    /\ logins = <<>>
    /\ mounted = FALSE
    /\ returned = "none"
    /\ history = <<>>

\* The effect that runs once the AuthProvider is mounted.
RestoreSession ==
    /\ ~mounted
    /\ Len(history) < MaxAuthSteps
    /\ mounted' = TRUE
    /\ LET storedUser == getItem(localStorage, "coastal_user")
       IN  user' = IF storedUser # <<>> /\ storedUser[1] # <<>>
                   THEN <<JSONParse(storedUser[1])>>
                   ELSE user
    /\ UNCHANGED <<localStorage, logins, returned>>
    /\ Record("load")
    /\ UNCHANGED <<pushVars, apiVars, viewVars>>

\* login(email, password) up to its await.
Login ==
    /\ mounted
    /\ Len(logins) < MaxLogins
    /\ Len(history) < MaxAuthSteps
    /\ \E email \in {"rajesh@emergency.gov.in", "priya@coastal.ngo", "unknown@x.com"},
          password \in {"secret"} :
           logins' = Append(logins, [email |-> email, password |-> password])
    /\ UNCHANGED <<user, localStorage, mounted, returned, history>>
    /\ UNCHANGED <<pushVars, apiVars, viewVars>>

\* login after its await, keeping a user who is already logged in.
LoginResolveFirstWins ==
    /\ logins # <<>>
    /\ Len(history) < MaxAuthSteps
    /\ LET authenticatedUser == authenticateUser(Head(logins).email, Head(logins).password)
       IN  IF authenticatedUser # <<>> /\ user = <<>>
           THEN /\ user' = authenticatedUser
                /\ localStorage' = setItem(localStorage, "coastal_user",
                                           JSONStringify(authenticatedUser[1]))
                /\ returned' = "true"
           ELSE /\ returned' = IF authenticatedUser # <<>> THEN "true" ELSE "false"
                /\ UNCHANGED <<user, localStorage>>
    /\ logins' = Tail(logins)
    /\ UNCHANGED mounted
    /\ Record("login")
    /\ UNCHANGED <<pushVars, apiVars, viewVars>>

\* login after its await, logging the user out when authentication fails.
LoginResolveClearing ==
    /\ logins # <<>>
    /\ Len(history) < MaxAuthSteps
    /\ LET authenticatedUser == authenticateUser(Head(logins).email, Head(logins).password)
       IN  IF authenticatedUser # <<>>
           THEN /\ user' = authenticatedUser
                /\ localStorage' = setItem(localStorage, "coastal_user",
                                           JSONStringify(authenticatedUser[1]))
                /\ returned' = "true"
           ELSE /\ returned' = "false"
                /\ user' = <<>>
                /\ localStorage' = removeItem(localStorage, "coastal_user")
    /\ logins' = Tail(logins)
    /\ UNCHANGED mounted
    /\ Record("login")
    /\ UNCHANGED <<pushVars, apiVars, viewVars>>

\* login after its await: authenticateUser has resolved.  All calls wait
\* the same 1000 ms, so they resolve in the order they were made.
LoginResolve ==
    /\ logins # <<>>
    /\ Len(history) < MaxAuthSteps
    /\ LET authenticatedUser == authenticateUser(Head(logins).email, Head(logins).password)
       IN  IF authenticatedUser # <<>>
           THEN /\ user' = authenticatedUser
                /\ localStorage' = setItem(localStorage, "coastal_user",
                                           JSONStringify(authenticatedUser[1]))
                /\ returned' = "true"
           ELSE /\ returned' = "false"
                /\ UNCHANGED <<user, localStorage>>
    /\ logins' = Tail(logins)
    /\ UNCHANGED mounted
    /\ Record("login")
    /\ UNCHANGED <<pushVars, apiVars, viewVars>>

Logout ==
    /\ mounted
    /\ Len(history) < MaxAuthSteps
    /\ user' = <<>>
    /\ localStorage' = removeItem(localStorage, "coastal_user")
    /\ UNCHANGED <<logins, mounted, returned>>
    /\ Record("logout")
    /\ UNCHANGED <<pushVars, apiVars, viewVars>>

\* The page is reloaded: the component state and the calls in flight are
\* gone, localStorage is kept.
Reload ==
    /\ mounted
    /\ Len(history) < MaxAuthSteps
    /\ user' = <<>>
    /\ logins' = <<>>
    /\ mounted' = FALSE
    /\ returned' = "none"
    /\ UNCHANGED localStorage
    /\ Record("reload")
    /\ UNCHANGED <<pushVars, apiVars, viewVars>>

NextAuth ==
    \/ RestoreSession
    \/ Login
    \/ LoginResolve
    \/ Logout
    \/ Reload

SpecAuth == InitAuth /\ [][NextAuth]_vars

\* Step j completed a login that returned true.
IsLoginOk(j) == history[j].kind = "login" /\ history[j].returned = "true"

IsSessionStep(j) == IsLoginOk(j) \/ history[j].kind = "logout"

\* The latest successful login or logout before step j; 0 if there is none.
LastSessionStep(j) ==
    IF \E i \in 1..(j - 1) : IsSessionStep(i)
    THEN CHOOSE i \in 1..(j - 1) :
             IsSessionStep(i) /\ \A k \in (i + 1)..(j - 1) : ~IsSessionStep(k)
    ELSE 0

\* C7: a successful login leaves the user record under the one key
\* coastal_user, a logout leaves the current user null and the key removed,
\* and a load of the AuthProvider restores the user of the latest successful
\* login, or no user when a logout came after it.
C7_SessionSurvivesReload ==
    /\ \A e \in localStorage : e[1] = "coastal_user"
    /\ \A j \in 1..Len(history) :
           /\ IsLoginOk(j) =>
                  /\ history[j].user # <<>>
                  /\ history[j].stored =
                         {<<"coastal_user", JSONStringify(history[j].user[1])>>}
           /\ history[j].kind = "logout" =>
                  /\ history[j].user = <<>>
                  /\ history[j].stored = {}
           /\ (history[j].kind = "load" /\ LastSessionStep(j) # 0) =>
                  history[j].user = history[LastSessionStep(j)].user

\* Dr. Rajesh Kumar logged in, the page was reloaded and the load restored
\* him; then he logged out and the key is gone.
C7_Witness ==
    /\ Len(history) = 5
    /\ IsLoginOk(2)
    /\ history[2].user = <<mockUsers[1]>>
    /\ history[3].kind = "reload"
    /\ history[4].kind = "load"
    /\ history[4].user = <<mockUsers[1]>>
    /\ history[5].kind = "logout"
    /\ user = <<>>
    /\ localStorage = {}

QualitiesOf(data, name) ==
    { data[i].value : i \in { j \in 1..Len(data) :
                                  /\ data[j].type = "water_quality"
                                  /\ data[j].location.name = name } }

PollutionCount(preds, name) ==
    Cardinality({ i \in 1..Len(preds) :
                      /\ preds[i].threatType = WaterPollution
                      /\ preds[i].location = name })

\* C11: detectAnomalies gives a location exactly one Water Pollution
\* prediction when some water-quality value there is below 40 ppm and none
\* otherwise; a minimum of exactly 40 gives none.
C11_PollutionStrictlyBelowForty ==
    op = "detectAnomalies" =>
        \A name \in {ChennaiCoast, MumbaiCoast} :
            /\ (\E v \in QualitiesOf(args, name) : v < 4000)
                   => PollutionCount(result, name) = 1
            /\ (\A v \in QualitiesOf(args, name) : v >= 4000)
                   => PollutionCount(result, name) = 0
            /\ (4000 \in QualitiesOf(args, name)
                    /\ \A v \in QualitiesOf(args, name) : v >= 4000)
                   => PollutionCount(result, name) = 0

\* Chennai Coast with two water-quality readings below 40 ppm and a wind
\* reading of 70 km/h, Mumbai Coast with a minimum of exactly 40: one
\* pollution prediction, for Chennai Coast.
C11_Witness ==
    /\ op = "detectAnomalies"
    /\ QualitiesOf(args, ChennaiCoast) = {1000, 3999}
    /\ QualitiesOf(args, MumbaiCoast) = {4000}
    /\ WindsOf(args, ChennaiCoast) = {7000}
    /\ PollutionCount(result, ChennaiCoast) = 1
    /\ PollutionCount(result, MumbaiCoast) = 0
    /\ Len(result) = 2

\* C12: adding the same constant to every tide value of a location leaves
\* the tide pass unchanged: the same readings are flagged, with the same
\* threat type, probability and confidence.
C12_TranslationInvariant ==
    op = "tidePass" =>
        \A i \in 1..Len(args.tides) :
            /\ result[2][i].flagged = result[1][i].flagged
            /\ result[2][i].threatType = result[1][i].threatType
            /\ result[2][i].probability = result[1][i].probability
            /\ result[2][i].confidence = result[1][i].confidence

\* The tide readings of a location, in list order.
TidesOf(data, name) ==
    SelectSeq(data, LAMBDA r : r.type = "tide_gauge" /\ r.location.name = name)

\* 0 < x <= a / b
InRange(x, a, b) == x.n > 0 /\ ~GreaterThan(x, a, b)

\* x = min(c * z, cap) for the squares x, z of the numbers and the squares
\* cn / cd of the factor and capn / capd of the cap
IsCapped(x, z, cn, cd, capn, capd) ==
    IF cn * z.n * capd <= capn * cd * z.d
    THEN x.n * cd * z.d = cn * z.n * x.d
    ELSE x.n * capd = capn * x.d

RECURSIVE SumOf(_)
SumOf(numbers) == IF numbers = <<>> THEN 0 ELSE Head(numbers) + SumOf(Tail(numbers))

\* What the tide pass, in the arithmetic of the code, said of the readings
\* tides is in range and labelled by the side of the mean.
FloatPassInRange(tides, pass) ==
    \A i \in 1..Len(tides) :
        pass[i].flagged =>
            /\ pass[i].probability.m > 0
            /\ ~FGreater(pass[i].probability, Decimal(95))
            /\ pass[i].confidence.m > 0
            /\ ~FGreater(pass[i].confidence, Decimal(90))
            /\ Len(tides) * tides[i] # SumOf(tides)
            /\ pass[i].threatType = StormSurgeRisk
                   <=> Len(tides) * tides[i] > SumOf(tides)

\* The ranges and the tide formulas on the predictions detectAnomalies
\* returns, in exact arithmetic.
PredictionsInRange ==
    op = "detectAnomalies" =>
        \A i \in 1..Len(result) :
            /\ InRange(result[i].probability, 95, 100)
            /\ InRange(result[i].confidence, 9, 10)
            /\ result[i].threatType \in {StormSurgeRisk, UnusualLowTide} =>
                   LET tides == TidesOf(args, result[i].location)
                       value == result[i].features[1][2]
                       z == result[i].features[2][2]
                       dev == Len(tides) * value - SumValues(tides)
                       squares == SumSquares(tides, tides)
                   IN  /\ \E j \in 1..Len(tides) : tides[j].value = value
                       /\ squares > 0
                       /\ z.n * squares = Len(tides) * dev * dev * z.d
                       /\ z.n > 4 * z.d
                       /\ IsCapped(result[i].probability, z, 9, 100, 361, 400)
                       /\ IsCapped(result[i].confidence, z, 1, 16, 81, 100)
                       /\ dev # 0
                       /\ result[i].threatType = StormSurgeRisk <=> dev > 0

\* The same ranges and labels on what the tide pass pushes in the
\* arithmetic of the code.
TidePassInRange ==
    op = "tidePass" =>
        /\ FloatPassInRange(args.tides, result[1])
        /\ FloatPassInRange(Translate(args.tides, args.offset), result[2])

\* C13: every prediction of detectAnomalies has a probability in (0, 0.95]
\* and a confidence in (0, 0.9]; a tide prediction belongs to a reading
\* with a z-score z above 2, has probability min(0.3 z, 0.95) and confidence
\* min(0.25 z, 0.9), and is Storm Surge Risk for a reading above the mean of
\* its location and Unusual Low Tide for one below.
C13_ProbabilityAndConfidence == PredictionsInRange /\ TidePassInRange

\* Fourteen tide readings with one far above the others: its prediction has
\* the capped probability 0.95 and confidence 0.9 and is a Storm Surge
\* Risk; a wind prediction stands beside it.
C13_Witness ==
    /\ op = "detectAnomalies"
    /\ Len(TidesOf(args, ChennaiCoast)) = 14
    /\ Len(result) = 2
    /\ result[1].threatType = StormSurgeRisk
    /\ result[1].probability = Ratio(95, 100)
    /\ result[1].confidence = Ratio(9, 10)
    /\ result[2].threatType = CyclonicActivity

\* The indexes of the readings that call for an alert, in input order.
RECURSIVE Triggering(_, _)
Triggering(data, i) ==
    IF i > Len(data) THEN <<>>
    ELSE (IF \/ data[i].type = "tide_gauge" /\ data[i].value > 250
             \/ data[i].type = "weather_station" /\ data[i].value > 6000
          THEN <<i>> ELSE <<>>) \o Triggering(data, i + 1)

\* C14: detectThreats returns one alert for each tide-gauge reading above
\* 2.5 and each weather-station reading above 60, in input order and with
\* the reading's location: a storm_surge alert, critical above 3 and high
\* otherwise, or a cyclone alert, critical above 80 and high otherwise.
\* Other readings give no alert.
C14_ThreatsPerReading ==
    op = "detectThreats" =>
        LET hits == Triggering(args, 1)
        IN  /\ Len(result) = Len(hits)
            /\ \A k \in 1..Len(hits) :
                   LET data == args[hits[k]]
                   IN  /\ result[k].location = data.location
                       /\ data.type = "tide_gauge" =>
                              /\ result[k].type = StormSurge
                              /\ result[k].severity =
                                     IF data.value > 300 THEN "critical" ELSE "high"
                       /\ data.type = "weather_station" =>
                              /\ result[k].type = Cyclone
                              /\ result[k].severity =
                                     IF data.value > 8000 THEN "critical" ELSE "high"
            /\ (\A i \in 1..Len(args) :
                    args[i].type \in {"water_quality", "seismic"}) => result = <<>>

\* A weather-station reading of exactly 80 and a tide-gauge reading of 3.01:
\* a high cyclone alert for Mumbai Coast, then a critical storm_surge alert
\* for Chennai Coast.
C14_Witness ==
    /\ op = "detectThreats"
    /\ Len(args) = 2
    /\ args[1].type = "weather_station" /\ args[1].value = 8000
    /\ args[2].type = "tide_gauge" /\ args[2].value = 301
    /\ Len(result) = 2
    /\ result[1].type = Cyclone /\ result[1].severity = "high"
    /\ result[1].location.name = MumbaiCoast
    /\ result[2].type = StormSurge /\ result[2].severity = "critical"
    /\ result[2].location.name = ChennaiCoast

-----------------------------------------------------------------------------
(* The Alert Management View (src/components/AlertPanel.tsx): the severity  *)
(* filter, the two counts above the list, and the status selector of each   *)
(* listed alert. SpecPanel runs the panel over the alert lists the          *)
(* Dashboard can hand it.                                                   *)

MaxPanelAlerts == 3     \* the alert list grows to at most this length
MaxStatusUpdates == 1   \* at most this many status selections

\* The items of the severity filter, and of the status selector.
SeverityFilters == {"all", "critical", "high", "medium", "low"}
StatusChoices == {"acknowledged", "investigating", "resolved", "escalated"}

\* The filter with 'all' treated as one more severity.
filteredAlertsStrict(list, severity) ==
    SelectSeq(list, LAMBDA alert : alert.severity = severity)

\* filterSeverity === 'all' ? alerts
\*                          : alerts.filter(alert => alert.severity === filterSeverity)
filteredAlerts(list, severity) ==
    IF severity = "all" THEN list
    ELSE SelectSeq(list, LAMBDA alert : alert.severity = severity)

\* alerts.filter(alert => alert.severity === 'critical' || alert.severity === 'high')
activeAlerts(list) ==
    SelectSeq(list, LAMBDA alert : alert.severity = "critical"
                                   \/ alert.severity = "high")

\* The numbers the panel shows as Active Alerts and as Total Alerts.
ActiveAlertsCount == Len(activeAlerts(alerts))
TotalAlertsCount == Len(alerts)

\* The alerts the Dashboard can add to its list: the two of the generator
\* (high and medium) and the critical one of the heuristic.
PanelAlertPool ==
    {generateMockAlerts(0)[1], generateMockAlerts(0)[2], CriticalAlert}

\* The Dashboard's handler of onAlertUpdate only logs the call: the alert
\* list it returns to the panel is the one it had.
handleAlertUpdate(list, alertId, status) == list

InitPanel ==
    /\ PushIdle /\ ApiIdle /\ AuthIdle
    /\ ViewIdle

\* The Dashboard re-renders the panel with one more alert.
PanelAlertArrives ==
    /\ Len(alerts) < MaxPanelAlerts
    /\ \E alert \in PanelAlertPool : alerts' = OnAlertUpdate(alerts, alert)
    /\ UNCHANGED <<now, timers, sensorData, model, predictions, calls, lastDraw>>
    /\ UNCHANGED <<apiVars, authVars, viewVars>>

\* <Select value={filterSeverity} onValueChange={setFilterSeverity}>
SetFilterSeverity ==
    /\ \E value \in SeverityFilters \ {filterSeverity} : filterSeverity' = value
    /\ UNCHANGED <<pushVars, apiVars, authVars>>
    /\ UNCHANGED <<statusUpdates, messages, inputText, replies, avatar>>
    /\ UNCHANGED composeVars

\* The status selector calling the collaborator twice.
SelectStatusTwice ==
    /\ Len(statusUpdates) < MaxStatusUpdates
    /\ \E i \in 1..Len(filteredAlerts(alerts, filterSeverity)),
          value \in StatusChoices :
           LET alert == filteredAlerts(alerts, filterSeverity)[i]
               call == [alertId |-> alert.id, status |-> value]
           IN  /\ statusUpdates' = Append(Append(statusUpdates, call), call)
               /\ alerts' = handleAlertUpdate(alerts, alert.id, value)
    /\ UNCHANGED <<now, timers, sensorData, model, predictions, calls, lastDraw>>
    /\ UNCHANGED <<apiVars, authVars>>
    /\ UNCHANGED <<filterSeverity, messages, inputText, replies, avatar>>
    /\ UNCHANGED composeVars

\* <Select onValueChange={(value) => onAlertUpdate(alert.id, value)}> of a
\* listed alert: one call of the collaborator.
SelectStatus ==
    /\ Len(statusUpdates) < MaxStatusUpdates
    /\ \E i \in 1..Len(filteredAlerts(alerts, filterSeverity)),
          value \in StatusChoices :
           LET alert == filteredAlerts(alerts, filterSeverity)[i]
               call == [alertId |-> alert.id, status |-> value]
           IN  /\ statusUpdates' = Append(statusUpdates, call)
               /\ alerts' = handleAlertUpdate(alerts, alert.id, value)
    /\ UNCHANGED <<now, timers, sensorData, model, predictions, calls, lastDraw>>
    /\ UNCHANGED <<apiVars, authVars>>
    /\ UNCHANGED <<filterSeverity, messages, inputText, replies, avatar>>
    /\ UNCHANGED composeVars

NextPanel ==
    \/ PanelAlertArrives
    \/ SetFilterSeverity
    \/ SelectStatus

SpecPanel == InitPanel /\ [][NextPanel]_vars

\* C15: a status chosen for a listed alert leaves the alert list and every
\* field of every alert as they were, and leaves the filter alone; the step
\* adds exactly one call of onAlertUpdate, carrying the identifier of an alert
\* the panel lists and the chosen status. No other step calls onAlertUpdate.
C15_StatusUpdateOnlyCalls ==
    [][statusUpdates' # statusUpdates =>
           /\ alerts' = alerts
           /\ filterSeverity' = filterSeverity
           /\ Len(statusUpdates') = Len(statusUpdates) + 1
           /\ SubSeq(statusUpdates', 1, Len(statusUpdates)) = statusUpdates
           /\ LET call == statusUpdates'[Len(statusUpdates')]
              IN  /\ call.status \in StatusChoices
                  /\ \E i \in 1..Len(alerts) :
                         /\ ToString(alerts[i].id) = ToString(call.alertId)
                         /\ filterSeverity \in {"all", alerts[i].severity}]_vars

\* Under the filter 'high', alert_001 was marked resolved: the call was made,
\* and both alerts are still in the list exactly as the generator built them.
C15_Witness ==
    /\ filterSeverity = "high"
    /\ statusUpdates = << [alertId |-> "alert_001", status |-> "resolved"] >>
    /\ alerts = generateMockAlerts(0)

\* The positions of the alerts of a severity, in list order.
RECURSIVE Matching(_, _, _)
Matching(list, severity, i) ==
    IF i > Len(list) THEN <<>>
    ELSE (IF list[i].severity = severity THEN <<i>> ELSE <<>>)
         \o Matching(list, severity, i + 1)

\* What the panel lists under the current filter is what C20 says.
ShownAsFiltered ==
    LET shown == filteredAlerts(alerts, filterSeverity)
        hits == Matching(alerts, filterSeverity, 1)
    IN  IF filterSeverity = "all" THEN shown = alerts
        ELSE /\ Len(shown) = Len(hits)
             /\ \A k \in 1..Len(hits) : shown[k] = alerts[hits[k]]

\* The two counts are those of the whole list.
CountsUnfiltered ==
    /\ ActiveAlertsCount =
           Cardinality({i \in 1..Len(alerts) :
                            alerts[i].severity \in {"critical", "high"}})
    /\ TotalAlertsCount = Cardinality(DOMAIN alerts)

\* C20: under 'all' the panel lists every alert in list order, under any
\* other filter exactly the alerts of that severity in list order; Active
\* Alerts counts the critical and high alerts of the whole list and Total
\* Alerts counts the whole list, and a change of the filter changes neither.
C20_SeverityFilter ==
    [][/\ ShownAsFiltered' /\ CountsUnfiltered'
       /\ filterSeverity' # filterSeverity =>
              /\ ActiveAlertsCount' = ActiveAlertsCount
              /\ TotalAlertsCount' = TotalAlertsCount]_vars

\* Three alerts (high, critical, high) under the filter 'high': the panel
\* lists the first and the third, and the counts read 3 active of 3.
C20_Witness ==
    /\ filterSeverity = "high"
    /\ Len(alerts) = 3
    /\ alerts[1].severity = "high" /\ alerts[2].severity = "critical"
    /\ alerts[3].severity = "high"
    /\ filteredAlerts(alerts, filterSeverity) = <<alerts[1], alerts[3]>>
    /\ ActiveAlertsCount = 3 /\ TotalAlertsCount = 3

\* The keywords of the seven topics, in the order the code tests them.
TopicKeywords ==
    << {Keyword.tide, Keyword.waterLevel}, {Keyword.wind, Keyword.weather},
       {Keyword.alert, Keyword.threat}, {Keyword.quality, Keyword.pollution},
       {Keyword.location, Keyword.where}, {Keyword.prediction, Keyword.forecast},
       {Keyword.help, Keyword.whatCanYou} >>

\* The seven keywords the specification lists.
ListedKeywords ==
    << {Keyword.tide}, {Keyword.wind}, {Keyword.alert}, {Keyword.quality},
       {Keyword.location}, {Keyword.prediction}, {Keyword.help} >>

\* How the replies of the seven topics begin.
TopicOpenings ==
    << {"Current average tide level is "},
       {"Current maximum wind speed is "},
       {"No active threats detected. All coastal monitoring systems are showing normal conditions.",
        "Currently tracking "},
       {"Average water quality index is "},
       {"I'm monitoring "},
       {PredictionReply[1]},
       {HelpReply[1]} >>

Fillers == {defaultResponses[i] : i \in 1..Len(defaultResponses)}

\* The latest call of generateResponse is answered by first match over the
\* topic keywords given: the reply is that of the first topic one of whose
\* keywords is a substring of the lower-cased message, and does not depend on
\* the random draw; it is a filler sentence iff no keyword is a substring.
FirstMatchOver(keywords) ==
    op = "generateResponse" =>
        LET message == ToLowerCase(args.userMessage)
            Matches(k) == \E word \in keywords[k] : Includes(message, word)
            matched == {k \in 1..Len(keywords) : Matches(k)}
        IN  /\ result \in Fillers <=> matched = {}
            /\ matched # {} =>
                   LET first == CHOOSE k \in matched : \A j \in matched : k <= j
                   IN  /\ result[1] \in TopicOpenings[first]
                       /\ \A r \in ResponseDrawValues :
                              result = generateResponse(args.userMessage,
                                           args.sensorData, args.alerts, r)

\* C18: generateResponse lower-cases the message and takes the first topic,
\* in the order tide, wind, alert, quality, location, prediction, help, one of
\* whose two keywords (tide | water level, wind | weather, alert | threat,
\* quality | pollution, location | where, prediction | forecast,
\* help | what can you) is a substring; the reply of a matched message is a
\* function of the message and the two lists; a filler sentence is returned
\* iff none of the fourteen keywords is a substring.
C18_FirstMatch == FirstMatchOver(TopicKeywords)

\* C18 as stated, with the seven listed keywords only: a filler sentence iff
\* none of tide, wind, alert, quality, location, prediction, help matches.
C18_ListedKeywordsOnly == FirstMatchOver(ListedKeywords)

\* "Tide alert" is answered with the tide reply although it contains alert,
\* with alerts to report in the list.
C18_Witness ==
    /\ op = "generateResponse"
    /\ args.userMessage = Message.tideAlert
    /\ Len(args.alerts) = 3
    /\ Len(args.sensorData) = 15
    /\ result = <<"Current average tide level is ", "2", ".", "5", "0",
                  " meters. ",
                  "Some stations are showing abnormal readings that require attention.">>

-----------------------------------------------------------------------------
(* The ChatBot component: its message log, the input field, the reply       *)
(* timeouts and the avatar effect. SpecChat runs one ChatBot from its first *)
(* render to after its unmount, with the props it was rendered with.        *)

ReplyDelay == 1000      \* setTimeout(..., 1000)
\* The clock advances in steps of half a reply delay.
ChatStep == ReplyDelay \div 2

MaxSends == 2           \* at most this many messages are sent
MaxChatTicks == 1       \* the clock advances at most this often
MaxRenders == 2         \* at most this many calls of renderer.render

\* useState<ChatMessage[]>([{ id: '1', text: 'Hello! ...', sender: 'bot', ... }])
Greeting ==
    [id |-> <<"1">>,
     text |-> <<"Hello! I'm your AI coastal monitoring assistant. I can help you analyze sensor data, understand threat patterns, and provide insights about coastal conditions. How can I assist you today?">>,
     sender |-> "bot",
     timestamp |-> 0]

\* What the user types or picks with a quick button.
ChatInputs == {Message.tideLevels, Message.hello, Message.blank}

\* The avatar before the effect has run.
NoAvatar ==
    [mounted |-> FALSE, canvas |-> FALSE, disposed |-> FALSE,
     frame |-> FALSE, renders |-> 0]

chatProps == <<timers, sensorData, alerts, model, predictions, calls, lastDraw>>
panelVars == <<filterSeverity, statusUpdates, composeVars>>

\* The first render of the ChatBot: the log holds the greeting, the effect
\* has not run yet.
InitChat ==
    /\ now = 0 /\ timers = <<>>
    /\ \/ sensorData = <<>> /\ alerts = <<>>
       \/ /\ sensorData = generateMockSensorData(DrawsFor(CalmDraws), 0)
          /\ alerts = generateMockAlerts(0)
    /\ model = "null" /\ predictions = <<>> /\ calls = NoCalls /\ lastDraw = 0
    /\ ApiIdle /\ AuthIdle
    /\ filterSeverity = "all" /\ statusUpdates = <<>>
    /\ selectedAlert = <<>> /\ notificationMessage = "" /\ selectedChannels = <<>>
    /\ sent = <<>>
    /\ messages = <<Greeting>>
    /\ inputText = <<>>
    /\ replies = <<>>
    /\ avatar = NoAvatar

\* The number of user messages in the log.
Sends == Len(SelectSeq(messages, LAMBDA m : m.sender = "user"))

\* onChange={(e) => setInputText(e.target.value)} and the quick buttons. The
\* effect of the first render has run before any user event is handled.
SetInputText ==
    /\ avatar.mounted /\ ~avatar.disposed
    /\ \E text \in ChatInputs \ {inputText} : inputText' = text
    /\ UNCHANGED <<now, chatProps, apiVars, authVars, panelVars>>
    /\ UNCHANGED <<messages, replies, avatar>>

\* handleSendMessage with setMessages([userMessage]) for the append.
HandleSendMessageReplacing ==
    /\ avatar.mounted /\ ~avatar.disposed
    /\ Sends < MaxSends
    /\ IF Trim(inputText) = <<>>
       THEN UNCHANGED <<messages, replies, inputText>>
       ELSE LET userMessage == [id |-> NumberToString(now),
                                text |-> inputText,
                                sender |-> "user",
                                timestamp |-> now]
            IN  /\ messages' = <<userMessage>>
                /\ replies' = Append(replies,
                                  [due |-> now + ReplyDelay, text |-> inputText,
                                   sensorData |-> sensorData, alerts |-> alerts])
                /\ inputText' = <<>>
    /\ UNCHANGED <<now, chatProps, apiVars, authVars, panelVars, avatar>>

\* handleSendMessage: nothing for blank input; otherwise the user message is
\* appended, the reply timeout is set with the input text and the props of
\* this render in its closure, and the input field is cleared.
HandleSendMessage ==
    /\ avatar.mounted /\ ~avatar.disposed
    /\ Sends < MaxSends
    /\ IF Trim(inputText) = <<>>
       THEN UNCHANGED <<messages, replies, inputText>>
       ELSE LET userMessage == [id |-> NumberToString(now),
                                text |-> inputText,
                                sender |-> "user",
                                timestamp |-> now]
            IN  /\ messages' = Append(messages, userMessage)
                /\ replies' = Append(replies,
                                  [due |-> now + ReplyDelay, text |-> inputText,
                                   sensorData |-> sensorData, alerts |-> alerts])
                /\ inputText' = <<>>
    /\ UNCHANGED <<now, chatProps, apiVars, authVars, panelVars, avatar>>

\* A reply timeout that answers the message sent last.
ReplyTimeoutNewestFirst ==
    /\ replies # <<>>
    /\ Head(replies).due <= now
    /\ replies' = SubSeq(replies, 1, Len(replies) - 1)
    /\ \E r \in {0, 99} :
           LET reply == replies[Len(replies)]
               botResponse ==
                   [id |-> NumberToString(now + 1),
                    text |-> generateResponse(reply.text, reply.sensorData,
                                              reply.alerts, r),
                    sender |-> "bot",
                    timestamp |-> now]
           IN  messages' = IF avatar.disposed THEN messages
                           ELSE Append(messages, botResponse)
    /\ UNCHANGED <<now, chatProps, apiVars, authVars, panelVars>>
    /\ UNCHANGED <<inputText, avatar>>

\* The callback of the reply timeout that is due: the bot message is
\* appended. After the unmount setMessages no longer has a log to update.
ReplyTimeout ==
    /\ replies # <<>>
    /\ Head(replies).due <= now
    /\ replies' = Tail(replies)
    /\ \E r \in {0, 99} :
           LET reply == Head(replies)
               botResponse ==
                   [id |-> NumberToString(now + 1),
                    text |-> generateResponse(reply.text, reply.sensorData,
                                              reply.alerts, r),
                    sender |-> "bot",
                    timestamp |-> now]
           IN  messages' = IF avatar.disposed THEN messages
                           ELSE Append(messages, botResponse)
    /\ UNCHANGED <<now, chatProps, apiVars, authVars, panelVars>>
    /\ UNCHANGED <<inputText, avatar>>

\* Time passes, up to the moment the next reply timeout is due; while a
\* reply timeout is pending the clock always reaches it.
ChatTick ==
    /\ avatar.mounted
    /\ now < MaxChatTicks * ChatStep \/ replies # <<>>
    /\ replies # <<>> => now + ChatStep <= Head(replies).due
    /\ now' = now + ChatStep
    /\ UNCHANGED <<chatProps, apiVars, authVars, viewVars>>

\* The avatar effect after the first render: the canvas is appended to the
\* mount element and animate() is called, which requests a frame and renders.
AvatarEffect ==
    /\ ~avatar.mounted /\ ~avatar.disposed
    /\ avatar' = [mounted |-> TRUE, canvas |-> TRUE, disposed |-> FALSE,
                  frame |-> TRUE, renders |-> 1]
    /\ UNCHANGED <<now, chatProps, apiVars, authVars, panelVars>>
    /\ UNCHANGED <<messages, inputText, replies>>

\* The browser runs the requested frame: animate requests the next frame
\* and renders, whether or not the component is still mounted.
AnimationFrame ==
    /\ avatar.frame
    /\ avatar.renders < MaxRenders
    /\ avatar' = [avatar EXCEPT !.frame = TRUE, !.renders = @ + 1]
    /\ UNCHANGED <<now, chatProps, apiVars, authVars, panelVars>>
    /\ UNCHANGED <<messages, inputText, replies>>

\* The cleanup of the avatar effect at unmount: the canvas is removed if
\* mountRef.current is still set when the cleanup runs (which depends on the
\* React version), and the renderer is disposed.
UnmountChatBot ==
    /\ avatar.mounted /\ ~avatar.disposed
    /\ \E refSet \in BOOLEAN :
           avatar' = [avatar EXCEPT !.canvas = IF refSet THEN FALSE ELSE @,
                                    !.disposed = TRUE]
    /\ UNCHANGED <<now, chatProps, apiVars, authVars, panelVars>>
    /\ UNCHANGED <<messages, inputText, replies>>

NextChat ==
    \/ SetInputText
    \/ HandleSendMessage
    \/ ReplyTimeout
    \/ ChatTick
    \/ AvatarEffect
    \/ AnimationFrame
    \/ UnmountChatBot

SpecChat == InitChat /\ [][NextChat]_vars

\* C16: the log starts as the greeting alone, and every step leaves every
\* message that is in it in place and unchanged: the log after the step
\* begins with the log before it, so its length never decreases.
C16_LogAppendOnly ==
    /\ messages = <<Greeting>>
    /\ [][/\ Len(messages') >= Len(messages)
          /\ SubSeq(messages', 1, Len(messages)) = messages]_vars

\* Two sends before the first reply, and both replies: the greeting, the
\* two user messages, then the two bot messages.
C16_Witness ==
    /\ Len(messages) = 5
    /\ messages[1] = Greeting
    /\ messages[2].sender = "user" /\ messages[2].text = Message.tideLevels
    /\ messages[3].sender = "user" /\ messages[3].text = Message.hello
    /\ messages[4].sender = "bot" /\ messages[4].text[1] = "Current average tide level is "
    /\ messages[5].sender = "bot" /\ messages[5].text \in Fillers

\* C17: once the unmount cleanup has run, the canvas is removed, no
\* animation frame is scheduled and no step renders again.
C17_UnmountStopsAvatar ==
    [][avatar.disposed =>
           /\ ~avatar.canvas
           /\ ~avatar.frame /\ ~avatar'.frame
           /\ avatar'.renders = avatar.renders]_vars

-----------------------------------------------------------------------------
(* The time-series view (DataCharts in src/unnamed/part_003): the three     *)
(* charts are computed from the sensorData prop on every render. SpecCharts *)
(* runs the view over the Dashboard's reading list as readings are pushed.  *)

ChartWindow == 20       \* .slice(-20)
MaxChartPushes == 4     \* at most this many readings are pushed

\* timestamp.toLocaleTimeString(): the time of day to the second, here as
\* HH:MM:SS in UTC; the date and the milliseconds are lost.
ToLocaleTimeString(t) ==
    LET seconds == (t \div 1000) % 86400
    IN  PadDigits(seconds \div 3600, 2) \o <<":">>
        \o PadDigits((seconds % 3600) \div 60, 2) \o <<":">>
        \o PadDigits(seconds % 60, 2)

\* d => ({ time: ..., value: d.value, location: d.location.name, status: d.status })
ChartPoint(d) ==
    [time |-> ToLocaleTimeString(d.timestamp),
     value |-> d.value,
     location |-> d.location.name,
     status |-> d.status]

\* array.slice(-k)
SliceLast(list, k) ==
    IF Len(list) <= k THEN list ELSE SubSeq(list, Len(list) - k + 1, Len(list))

\* The view with slice(0, 20) for slice(-20).
processChartDataFirst(data, type) ==
    LET filtered == OfType(data, type)
        points == [i \in 1..Len(filtered) |-> ChartPoint(filtered[i])]
    IN  SubSeq(points, 1, IF Len(points) <= ChartWindow THEN Len(points)
                          ELSE ChartWindow)

\* data.filter(d => d.type === type).map(...).slice(-20)
processChartData(data, type) ==
    LET filtered == OfType(data, type)
        points == [i \in 1..Len(filtered) |-> ChartPoint(filtered[i])]
    IN  SliceLast(points, ChartWindow)

\* The three charts of the view.
ChartKinds == {"tide_gauge", "weather_station", "water_quality"}
TideChart == processChartData(sensorData, "tide_gauge")
WeatherChart == processChartData(sensorData, "weather_station")
QualityChart == processChartData(sensorData, "water_quality")

\* The Dashboard's reading list after k pushed readings with calm draws: the
\* generator's fifteen readings, then k tide readings of Chennai Coast, one
\* every five seconds.
RECURSIVE ReadingsAfter(_)
ReadingsAfter(k) ==
    IF k = 0 THEN generateMockSensorData(DrawsFor(CalmDraws), 0)
    ELSE OnDataUpdate(ReadingsAfter(k - 1),
             generateMockSensorData(DrawsFor(CalmDraws), k * DataInterval)[1])

\* The draws of a pushed reading: tide values 1.00, 2.50 and 3.97 m.
ChartPushDraws ==
    { [CalmDraws EXCEPT !.tide = v, !.tideStatus = v] : v \in {0, 50, 99} }

\* The view is opened when 0, 14 or 15 readings have been pushed: 5, 19 or
\* 20 tide readings are in the list.
InitCharts ==
    /\ \E k \in {0, ChartWindow - 6, ChartWindow - 5} :
           /\ now = k * DataInterval
           /\ sensorData = ReadingsAfter(k)
    /\ timers = <<>> /\ alerts = <<>>
    /\ model = "null" /\ predictions = <<>> /\ calls = NoCalls /\ lastDraw = 0
    /\ ApiIdle /\ AuthIdle /\ ViewIdle

\* The data timer pushes a reading and the Dashboard re-renders the view
\* with the longer list.
ChartDataTick ==
    /\ calls.data < MaxChartPushes
    /\ now' = now + DataInterval
    /\ \E d \in ChartPushDraws :
           sensorData' = OnDataUpdate(sensorData,
                             generateMockSensorData(DrawsFor(d), now')[1])
    /\ calls' = [calls EXCEPT !.data = @ + 1]
    /\ UNCHANGED <<timers, alerts, model, predictions, lastDraw>>
    /\ UNCHANGED <<apiVars, authVars, viewVars>>

NextCharts == ChartDataTick

SpecCharts == InitCharts /\ [][NextCharts]_vars

\* The chart of a kind, by name.
ChartOf(type) ==
    CASE type = "tide_gauge" -> TideChart
      [] type = "weather_station" -> WeatherChart
      [] type = "water_quality" -> QualityChart

\* The positions of the readings of a kind in the reading list, in order.
RECURSIVE PositionsOf(_, _, _)
PositionsOf(data, type, i) ==
    IF i > Len(data) THEN <<>>
    ELSE (IF data[i].type = type THEN <<i>> ELSE <<>>)
         \o PositionsOf(data, type, i + 1)

\* The chart shown is the last min(20, n) of the n readings of the kind in
\* data, in list order, and nothing else.
ShowsLast(shown, data, type) ==
    \E at \in {PositionsOf(data, type, 1)} :
        \E m \in {IF Len(at) < 20 THEN Len(at) ELSE 20} :
            /\ Len(shown) = m
            /\ \A k \in 1..m :
                   \E d \in {data[at[Len(at) - m + k]]} :
                       /\ d.type = type
                       /\ shown[k] = [time |-> ToLocaleTimeString(d.timestamp),
                                      value |-> d.value,
                                      location |-> d.location.name,
                                      status |-> d.status]

\* A reading of a kind that has 20 or more readings is added: it enters the
\* chart at the end and the oldest shown reading leaves it.
Displaces(before, after, data, last, type) ==
    (last.type = type /\ Len(OfType(data, type)) >= 20) =>
        after = Append(Tail(before),
                    [time |-> ToLocaleTimeString(last.timestamp),
                     value |-> last.value,
                     location |-> last.location.name,
                     status |-> last.status])

\* C19: each of the three charts shows exactly the last min(20, n) readings
\* of its kind, in list order, and no reading of another kind; when a kind
\* has 20 or more readings, a further reading of that kind enters the chart
\* at the end and the oldest shown one leaves it.
C19_ChartsShowLastTwenty ==
    /\ \A type \in ChartKinds : ShowsLast(ChartOf(type), sensorData, type)
    /\ [][\A type \in ChartKinds :
              \E before \in {ChartOf(type)}, after \in {ChartOf(type)'} :
                  /\ ShowsLast(after, sensorData', type)
                  /\ Len(sensorData') = Len(sensorData) + 1 =>
                         Displaces(before, after, sensorData,
                                   sensorData'[Len(sensorData')], type)]_vars

\* 22 tide readings: the chart shows the third (the generator's reading of
\* Goa Coast) to the twenty-second, the last one being the reading of 3.97 m
\* pushed at 85 s; the weather chart still shows the five weather readings.
C19_Witness ==
    /\ Len(PositionsOf(sensorData, "tide_gauge", 1)) = 22
    /\ Len(TideChart) = 20
    /\ TideChart[1].location = GoaCoast
    /\ TideChart[1].time = <<"0","0",":","0","0",":","0","0">>
    /\ TideChart[20].value = 397
    /\ TideChart[20].time = <<"0","0",":","0","1",":","2","5">>
    /\ Len(WeatherChart) = 5

-----------------------------------------------------------------------------
(* The notification dialog of the Alert Management View: the alert picked   *)
(* with Send Alert, the channel buttons, the message text and the Send      *)
(* Notification button. SpecNotify runs the dialog over the alert lists the *)
(* panel is rendered with; sent holds the call the latest step made.        *)

\* ['SMS', 'Email', 'Push', 'Voice']
Channels == <<"SMS", "Email", "Push", "Voice">>

\* What is typed into the message field: nothing, a blank, a text.
NotificationTexts == {"", " ", "Evacuate now"}

\* The channel button always appending the channel.
toggleChannelAppend(prev, channel) == Append(prev, channel)

\* prev.includes(channel) ? prev.filter(c => c !== channel) : [...prev, channel]
toggleChannel(prev, channel) ==
    IF \E i \in 1..Len(prev) : prev[i] = channel
    THEN SelectSeq(prev, LAMBDA c : c # channel)
    ELSE Append(prev, channel)

InitNotify ==
    /\ now = 0 /\ timers = <<>> /\ sensorData = <<>>
    /\ alerts \in {generateMockAlerts(0), Append(generateMockAlerts(0), CriticalAlert)}
    /\ model = "null" /\ predictions = <<>> /\ calls = NoCalls /\ lastDraw = 0
    /\ ApiIdle /\ AuthIdle /\ ViewIdle

\* onClick={() => setSelectedAlert(alert)} of a listed alert
SetSelectedAlert ==
    /\ \E i \in 1..Len(filteredAlerts(alerts, filterSeverity)) :
           selectedAlert' = <<filteredAlerts(alerts, filterSeverity)[i]>>
    /\ sent' = <<>>
    /\ UNCHANGED <<pushVars, apiVars, authVars>>
    /\ UNCHANGED <<filterSeverity, statusUpdates, messages, inputText, replies, avatar>>
    /\ UNCHANGED <<notificationMessage, selectedChannels>>

\* The onClick of a channel button.
ToggleChannel ==
    /\ \E i \in 1..Len(Channels) :
           selectedChannels' = toggleChannel(selectedChannels, Channels[i])
    /\ sent' = <<>>
    /\ UNCHANGED <<pushVars, apiVars, authVars>>
    /\ UNCHANGED <<filterSeverity, statusUpdates, messages, inputText, replies, avatar>>
    /\ UNCHANGED <<selectedAlert, notificationMessage>>

\* onChange={(e) => setNotificationMessage(e.target.value)}
SetNotificationMessage ==
    /\ \E text \in NotificationTexts \ {notificationMessage} :
           notificationMessage' = text
    /\ sent' = <<>>
    /\ UNCHANGED <<pushVars, apiVars, authVars>>
    /\ UNCHANGED <<filterSeverity, statusUpdates, messages, inputText, replies, avatar>>
    /\ UNCHANGED <<selectedAlert, selectedChannels>>

\* handleSendNotification
HandleSendNotification ==
    /\ IF selectedAlert # <<>> /\ notificationMessage # ""
          /\ Len(selectedChannels) > 0
       THEN /\ sent' = << [alertId |-> selectedAlert[1].id,
                           channels |-> selectedChannels,
                           message |-> notificationMessage] >>
            /\ notificationMessage' = ""
            /\ selectedChannels' = <<>>
       ELSE /\ sent' = <<>>
            /\ UNCHANGED <<notificationMessage, selectedChannels>>
    /\ UNCHANGED <<pushVars, apiVars, authVars>>
    /\ UNCHANGED <<filterSeverity, statusUpdates, messages, inputText, replies, avatar>>
    /\ UNCHANGED selectedAlert

NextNotify ==
    \/ SetSelectedAlert
    \/ ToggleChannel
    \/ SetNotificationMessage
    \/ HandleSendNotification

SpecNotify == InitNotify /\ [][NextNotify]_vars

\* The channels of a selection, as a set.
ChannelSet(selection) == {selection[i] : i \in 1..Len(selection)}

\* A step that calls onSendNotification starts with an alert selected, a
\* non-empty message and at least one channel, passes exactly those, and
\* resets the message and the channels but not the selected alert.
SendsWhatIsComposed ==
    sent' # <<>> =>
        /\ selectedAlert # <<>>
        /\ notificationMessage # ""
        /\ selectedChannels # <<>>
        /\ sent' = << [alertId |-> selectedAlert[1].id,
                       channels |-> selectedChannels,
                       message |-> notificationMessage] >>
        /\ notificationMessage' = ""
        /\ selectedChannels' = <<>>
        /\ selectedAlert' = selectedAlert

\* The selection is a duplicate-free list of the four channels.
DuplicateFree(selection) ==
    /\ ChannelSet(selection) \subseteq {"SMS", "Email", "Push", "Voice"}
    /\ Cardinality(ChannelSet(selection)) = Len(selection)

ClockIdentifier(type, t) ==
    <<"m","l","_","t","h","r","e","a","t","_">> \o NumberToString(t)
    \o (IF type = Cyclone THEN <<"_","w","i","n","d">> ELSE <<>>)

\* C22: the identifier of an alert of detectThreats is made of the clock
\* value and the alert type and of nothing else, so two storm_surge alerts
\* made at one clock value have one identifier, and so have two cyclone
\* alerts, whatever their readings, locations and severities.
C22_IdentifiersCollide ==
    op = "detectThreats" =>
        /\ \A k \in 1..Len(result) :
               result[k].id = ClockIdentifier(result[k].type, result[k].timestamp)
        /\ \A i, j \in 1..Len(result) :
               (result[i].type = result[j].type
                /\ result[i].timestamp = result[j].timestamp)
                   => result[i].id = result[j].id

\* One call with the tide readings 2.51 and 3.01 of Chennai Coast, the clock
\* standing still: a high and a critical storm_surge alert with the same id.
C22_Witness ==
    /\ op = "detectThreats"
    /\ Len(args) = 2
    /\ args[1].value = 251 /\ args[2].value = 301
    /\ Len(result) = 2
    /\ result[1].severity = "high" /\ result[2].severity = "critical"
    /\ result[1].type = StormSurge /\ result[2].type = StormSurge
    /\ result[1].id = result[2].id

\* The step completes a login call: authenticateUser has resolved and login
\* returns.
CompletesLogin ==
    /\ Len(history') = Len(history) + 1
    /\ history'[Len(history')].kind = "login"

\* C23: a login that is in flight is not cancelled. When it completes for a
\* roster email, the current user and the stored record become that roster
\* user, whatever was done since the call: a logout in between is undone, and
\* of two overlapping logins the one that completes last leaves its user.
C23_LoginOutlivesLogout ==
    [][CompletesLogin =>
           LET found == authenticateUser(Head(logins).email, Head(logins).password)
           IN  found # <<>> =>
                   /\ found[1].email = Head(logins).email
                   /\ user' = found
                   /\ getItem(localStorage', "coastal_user")
                          = <<JSONStringify(found[1])>>]_vars

\* A logout was made while a login of Dr. Rajesh Kumar was in flight; the
\* login then completed, and he is logged in and stored.
C23_Witness ==
    /\ Len(history) >= 2
    /\ history[Len(history) - 1].kind = "logout"
    /\ history[Len(history) - 1].pending = 1
    /\ history[Len(history) - 1].user = <<>>
    /\ IsLoginOk(Len(history))
    /\ user = <<mockUsers[1]>>
    /\ localStorage = {<<"coastal_user", JSONStringify(mockUsers[1])>>}

\* C24: once the startup effect has run, the key coastal_user is in storage
\* iff the current user is not null, and then it holds that user's record.
C24_UserAndStorageAgree ==
    mounted =>
        /\ (getItem(localStorage, "coastal_user") = <<>>) <=> (user = <<>>)
        /\ user # <<>> =>
               /\ getItem(localStorage, "coastal_user") = <<JSONStringify(user[1])>>
               /\ JSONParse(getItem(localStorage, "coastal_user")[1]) = user[1]

\* Priya Sharma's session was restored, she logged out, and Dr. Rajesh Kumar
\* logged in: he is the current user and the stored record.
C24_Witness ==
    /\ mounted
    /\ Len(history) = 3
    /\ history[1].kind = "load" /\ history[1].user = <<mockUsers[2]>>
    /\ history[2].kind = "logout"
    /\ IsLoginOk(3)
    /\ user = <<mockUsers[1]>>
    /\ localStorage = {<<"coastal_user", JSONStringify(mockUsers[1])>>}

Gated == model = "null" \/ sensorData = <<>>

\* Nothing has been published and onThreatDetected has not been called.
NothingPublished ==
    /\ predictions = <<>>
    /\ calls.runs = 0
    /\ calls.threat = 0
    /\ alerts = <<>>

InGeneratedRanges ==
    \A i \in 1..Len(args) :
        /\ args[i].type = "weather_station" =>
               args[i].value >= 2000 /\ args[i].value < 7000
        /\ args[i].type = "water_quality" =>
               args[i].value >= 0 /\ args[i].value < 10000
        /\ args[i].type = "tide_gauge" =>
               args[i].value >= 100 /\ args[i].value < 400

\* probability > 0.7, the test that makes an alert of a prediction
ReachesThreshold(prediction) == GreaterThan(prediction.probability, 7, 10)

\* C28: on generated readings a Cyclonic Activity prediction has a
\* probability below 0.25 and is never above the alert threshold of 0.7; a
\* prediction is above the threshold iff it is a Water Pollution prediction
\* for a minimum below 12 ppm or a tide prediction for a z-score above 7/3.
C28_GeneratedWindNeverAlerts ==
    op = "detectAnomaliesGenerated" =>
        /\ InGeneratedRanges
        /\ \A i \in 1..Len(result) :
               LET prediction == result[i]
               IN  /\ prediction.threatType = CyclonicActivity =>
                          /\ ~GreaterThan(prediction.probability, 1, 4)
                          /\ prediction.probability # Ratio(1, 4)
                          /\ ~ReachesThreshold(prediction)
                   /\ prediction.threatType = WaterPollution =>
                          (ReachesThreshold(prediction)
                               <=> prediction.features[1][2] < 1200)
                   /\ prediction.threatType \in {StormSurgeRisk, UnusualLowTide} =>
                          (ReachesThreshold(prediction)
                               <=> GreaterThan(prediction.features[2][2], 7, 3))
                   /\ prediction.threatType \in
                          {CyclonicActivity, WaterPollution, StormSurgeRisk,
                           UnusualLowTide}

\* A snapshot with wind of 69.5 km/h and water quality 11 ppm at Chennai
\* Coast and six pushed tide readings: the Cyclonic Activity prediction stays
\* below the threshold, the tide prediction of the odd reading (z = sqrt 6)
\* and the Water Pollution prediction are above it.
C28_Witness ==
    /\ op = "detectAnomaliesGenerated"
    /\ \E i, j, k \in 1..Len(result) :
           /\ result[i].threatType = CyclonicActivity
           /\ result[i].location = ChennaiCoast
           /\ result[i].features[1][2] = 6950
           /\ result[i].probability = Ratio(950, 4000)
           /\ result[j].threatType = WaterPollution
           /\ result[j].features[1][2] = 1100
           /\ ReachesThreshold(result[j])
           /\ result[k].threatType \in {StormSurgeRisk, UnusualLowTide}
           /\ result[k].features[2][2] = Root(6, 1)
           /\ ReachesThreshold(result[k])

\* The reading is the tide-gauge reading of Chennai Coast.
IsChennaiTideReading(reading) ==
    /\ reading.id = <<"t","i","d","e","_","C","h","e","n","n","a","i","_","C","o","a","s","t">>
    /\ reading.type = "tide_gauge"
    /\ reading.location = [lat |-> 130827, lng |-> 802707, name |-> ChennaiCoast]
    /\ reading.unit = "meters"
    /\ reading.value >= 100 /\ reading.value < 400

\* The alert is the storm-surge alert alert_001 for Chennai Coast.
IsChennaiSurgeAlert(alert) ==
    /\ alert.id = "alert_001"
    /\ alert.type = StormSurge
    /\ alert.severity = "high"
    /\ alert.location = [lat |-> 130827, lng |-> 802707, name |-> ChennaiCoast]
    /\ alert.affectedAreas = <<"Chennai Port", "Marina Beach", "Ennore Creek">>

\* C29: every reading the push channel delivers is the tide-gauge reading of
\* Chennai Coast with identifier tide_Chennai_Coast, stamped with the time of
\* the push, and every alert it delivers is the storm-surge alert alert_001
\* for Chennai Coast: all pushed readings share one identifier and all
\* pushed alerts share one identifier.
C29_PushesFirstElementOnly ==
    [][ /\ calls'.data > calls.data =>
               /\ calls'.data = calls.data + 1
               /\ Len(sensorData') = Len(sensorData) + 1
               /\ IsChennaiTideReading(sensorData'[Len(sensorData')])
               /\ sensorData'[Len(sensorData')].timestamp = now
        /\ calls'.alert > calls.alert =>
               /\ calls'.alert = calls.alert + 1
               /\ IsChennaiSurgeAlert(alerts'[Len(alerts) + 1])
               /\ alerts'[Len(alerts) + 1].timestamp = now
               /\ alerts'[Len(alerts) + 1].estimatedImpact = now + SurgeImpactDelay
      ]_vars

\* The subscription has pushed two readings of different values and times
\* and one alert onto empty lists before training: the readings are two
\* Chennai Coast tide readings with one identifier, the alert is alert_001.
C29_Witness ==
    /\ calls.connects = 1
    /\ calls.data = 2
    /\ calls.alert = 1
    /\ calls.threat = 0
    /\ Len(sensorData) = 2
    /\ \A i \in 1..2 : IsChennaiTideReading(sensorData[i])
    /\ sensorData[1].id = sensorData[2].id
    /\ sensorData[1].value # sensorData[2].value
    /\ sensorData[1].timestamp # sensorData[2].timestamp
    /\ Len(alerts) = 1
    /\ IsChennaiSurgeAlert(alerts[1])

\* The chat with its timers running: a reply timeout that is due fires, and
\* time passes (the browser's event loop runs every timer that is due).
\* What ReplyTimeout does to the pending timeouts: the one that is due is
\* taken off. No other step of the chat shortens the list.
ReplyTimeoutFires ==
    /\ replies # <<>>
    /\ Head(replies).due <= now
    /\ replies' = Tail(replies)

\* The steps of the chat that touch the log, its timers or the clock; the
\* avatar's animation frames touch none of them.
NextChatLog ==
    \/ SetInputText
    \/ HandleSendMessage
    \/ ReplyTimeout
    \/ ChatTick
    \/ AvatarEffect
    \/ UnmountChatBot

\* The ChatBot mounted by a dashboard that has loaded its readings and
\* alerts.
InitChatLog == InitChat /\ sensorData # <<>>

SpecChatFair ==
    /\ InitChatLog
    /\ [][NextChatLog]_vars
    /\ WF_replies(ReplyTimeoutFires)
    /\ WF_vars(ChatTick)

\* The user messages of the log and the bot replies after the greeting, in
\* log order.
UserMessages == SelectSeq(messages, LAMBDA m : m.sender = "user")
BotReplies == Tail(SelectSeq(messages, LAMBDA m : m.sender = "bot"))

\* The position in the log of the k-th message of a sender, the greeting
\* counted as the first bot message.
PositionOfNth(sender, k) ==
    CHOOSE i \in 1..Len(messages) :
        /\ messages[i].sender = sender
        /\ Cardinality({j \in 1..i : messages[j].sender = sender}) = k

\* The bot message is a reply to the text, made from the props of the chat.
Answers(bot, text) ==
    \E r \in {0, 99} : bot.text = generateResponse(text, sensorData, alerts, r)

\* The log is the greeting, the user messages and one reply for each of the
\* first user messages, each after its user message; the other user
\* messages have their reply timeout pending, in order.
LogShape ==
    /\ messages[1] = Greeting
    /\ Len(messages) = 1 + Len(UserMessages) + Len(BotReplies)
    /\ Len(BotReplies) <= Len(UserMessages)
    /\ \A k \in 1..Len(UserMessages) : Trim(UserMessages[k].text) # <<>>
    /\ \A k \in 1..Len(BotReplies) :
           /\ BotReplies[k].timestamp = UserMessages[k].timestamp + ReplyDelay
           /\ PositionOfNth("bot", k + 1) > PositionOfNth("user", k)
           /\ k > 1 => PositionOfNth("bot", k + 1) > PositionOfNth("bot", k)
    /\ ~avatar.disposed =>
           /\ Len(BotReplies) + Len(replies) = Len(UserMessages)
           /\ replies = <<>> => Len(messages) = 1 + 2 * Len(UserMessages)
           /\ \A j \in 1..Len(replies) :
                  replies[j].due
                      = UserMessages[Len(BotReplies) + j].timestamp + ReplyDelay

\* A step appends at most one message: a user message only from non-blank
\* input, stamped now, together with its reply timeout; a bot message only
\* from the oldest pending timeout, at its due time, in reply to the first
\* user message without a reply.
LogStep ==
    /\ Len(messages') <= Len(messages) + 1
    /\ SubSeq(messages', 1, Len(messages)) = messages
    /\ Len(messages') = Len(messages) + 1 =>
           LET new == messages'[Len(messages')]
           IN  IF new.sender = "user"
               THEN /\ Trim(inputText) # <<>>
                    /\ new.text = inputText
                    /\ new.timestamp = now
                    /\ replies' = Append(replies,
                                      [due |-> now + ReplyDelay, text |-> inputText,
                                       sensorData |-> sensorData, alerts |-> alerts])
               ELSE /\ replies # <<>>
                    /\ Head(replies).due = now
                    /\ replies' = Tail(replies)
                    /\ new.timestamp = now
                    /\ Answers(new, UserMessages[Len(BotReplies) + 1].text)
    /\ Trim(inputText) = <<>> =>
           Len(SelectSeq(messages', LAMBDA m : m.sender = "user"))
               = Len(UserMessages)

\* C30: a send with blank input appends nothing; every other send appends
\* the user message at once and its one reply a reply delay later, so that
\* with no reply pending the log holds 1 + 2n messages for n sends; replies
\* come in the order of their user messages; and while the ChatBot stays
\* mounted every user message is eventually answered: from every state a
\* state is reached in which every user message of the log has its reply.
C30_EveryMessageAnsweredOnce ==
    /\ LogShape
    /\ [][LogShape' /\ LogStep]_vars
    /\ []<>(avatar.disposed \/ Len(BotReplies) = Len(UserMessages))

\* Two messages sent half a reply delay apart, both answered: the log is the
\* greeting, user 1, user 2, bot 1, bot 2, each reply one reply delay after
\* its message, and no reply is pending.
C30_Witness ==
    /\ ~avatar.disposed
    /\ replies = <<>>
    /\ Len(messages) = 5
    /\ messages[2].sender = "user" /\ messages[3].sender = "user"
    /\ messages[4].sender = "bot" /\ messages[5].sender = "bot"
    /\ messages[3].timestamp = messages[2].timestamp + ChatStep
    /\ messages[4].timestamp = messages[2].timestamp + ReplyDelay
    /\ messages[5].timestamp = messages[3].timestamp + ReplyDelay
    /\ messages[2].text # messages[3].text

====
